---- MODULE Spec2Model ----
(***************************************************************************)
(* Droid Telegram bot (src/bot.py): the session directory, the process     *)
(* bridge and the task queue as a state machine.                           *)
(*                                                                         *)
(* Every handler is an `async def`. Python runs the code between two       *)
(* `await`s without interruption, so one action of this module is one such *)
(* block: from the point a unit of work is resumed to the next `await` at  *)
(* which it suspends (or to its return). The variable `co` holds the       *)
(* suspended units with their position (pc) and their local variables.     *)
(* Inbound events are dispatched as independently suspendable units of     *)
(* work, so a new handler may start whenever the running unit suspends.    *)
(* A blocking call inside a block (readline on the subprocess's stdout)    *)
(* is a position of its own where a property needs it: pc "readline".      *)
(*                                                                         *)
(* Python dictionaries are objects: two keys of `sessions` may hold the    *)
(* same dictionary, and a runner keeps its task dictionary after the queue *)
(* list was cleared. `sdata` and `tasks` are the heaps of those objects;   *)
(* `sessions` and `task_queue` hold references into them.                  *)
(***************************************************************************)
EXTENDS Integers, Sequences, FiniteSets, TLC

\* ------------------------------------------------------------------ bounds
MaxMsg == 3      \* message references the transport hands out in one run
MaxUnits == 2    \* units of work suspended at the same time
MaxTasks == 2    \* tasks enqueued in one run
MaxLines == 2    \* lines a subprocess writes to stdout in one run

\* --------------------------------------------------------------- constants
None == "none"
NoMsg == 0
Users == {"u1"}                  \* the identities on the allow-list
Identities == Users \cup {"x9"}  \* every identity that can send an event
AUTO_GIT_PULL == TRUE
AUTO_GIT_PUSH == FALSE
DEFAULT_CWD == "home"
PROJECT_SHORTCUTS == [pa |-> "dirA", pb |-> ""]
AUTONOMY_LEVELS == {"off", "low", "medium", "high", "unsafe"}
DEFAULT_AUTONOMY == "high"
DEFAULT_MODEL_SHORTCUT == "opus"
DEFAULT_SYNC == TRUE
HISTORY_CAP == 100

ToolIds == {"t1", "t2"}          \* session ids the external tool returns
GenNames == {"g1"}               \* names generate_session_name produces
ProjIds == {"p1"}                \* ids /proj synthesizes (tg-<uuid> or @name)
NamedIds == {"my_app"}           \* names given with /proj <shortcut> @name
Cids == 1..MaxUnits
Pids == 1..(MaxUnits + Cardinality(Users) + 1)
UnlinkedMsg == MaxMsg + 1        \* a message of the chat that carries no link

VARIABLES
    sessions,                \* message id -> reference into sdata
    sdata,                   \* reference -> session_data dictionary
    active_session_per_user, \* user -> [session_id, cwd, last_msg_id]
    session_history,         \* sequence of [session_id, cwd]
    session_autonomy,        \* session id -> level
    session_models,          \* session id -> model id
    session_git_sync,        \* session id -> [pull, push]
    active_processes,        \* user -> process id
    alive,                   \* the subprocesses that have not exited
    task_queue,              \* sequence of references into tasks
    tasks,                   \* reference -> task dictionary
    queue_running,
    queue_paused,
    co,                      \* unit slot -> suspended unit of work
    nextMsg,                 \* next message id of the transport
    disk                     \* the snapshot save_sessions wrote last

dirVars == <<sessions, sdata, active_session_per_user, session_history,
             session_autonomy, session_models, session_git_sync>>
queueVars == <<task_queue, tasks, queue_running, queue_paused>>
procVars == <<active_processes, alive>>
vars == <<sessions, sdata, active_session_per_user, session_history,
          session_autonomy, session_models, session_git_sync,
          active_processes, alive, task_queue, tasks, queue_running,
          queue_paused, co, nextMsg, disk>>

\* ----------------------------------------------------------------- helpers
Remove(f, k) == [x \in DOMAIN f \ {k} |-> f[x]]

Put(f, k, v) == [x \in DOMAIN f \cup {k} |-> IF x = k THEN v ELSE f[x]]

OrDefault(c) == IF c = None THEN DEFAULT_CWD ELSE c

LastN(s, n) == IF Len(s) <= n THEN s ELSE SubSeq(s, Len(s) - n + 1, Len(s))

MODEL_SHORTCUTS ==
    [opus |-> "claude-opus-4-5-20251101", sonnet |-> "claude-sonnet-4-5-20250929"]

\* Names that hold a "-" or a "." and pass for full model ids.
FullModelIds == {"gpt-5.1"}

resolve_model(shortcut) ==
    CASE shortcut = None -> MODEL_SHORTCUTS[DEFAULT_MODEL_SHORTCUT]
      [] shortcut \in DOMAIN MODEL_SHORTCUTS -> MODEL_SHORTCUTS[shortcut]
      [] shortcut \in FullModelIds -> shortcut
      [] OTHER -> None

IdleUnit ==
    [kind |-> "none", pc |-> "idle", user |-> None, reply_to |-> NoMsg,
     session_id |-> None, cwd |-> None, sd |-> NoMsg, cont |-> FALSE,
     first |-> FALSE, old_session_id |-> None, cmd_s |-> None, new_sid |-> None, proc |-> 0, task |-> 0,
     lines |-> <<>>, exits |-> TRUE, stderr |-> "", response |-> "",
     run |-> <<>>, tool_updates |-> <<>>, last_update |-> "", new_status |-> "",
     edits |-> <<>>, autonomy_level |-> "off", model |-> None, cmd |-> <<>>]

FreeUnits == {c \in Cids : co[c].pc = "idle"}

FreeUnit == CHOOSE c \in FreeUnits : \A d \in FreeUnits : c <= d

FreePids ==
    Pids \ (alive \cup {active_processes[u] : u \in DOMAIN active_processes}
                  \cup {co[c].proc : c \in Cids})

FreePid == CHOOSE p \in FreePids : \A q \in FreePids : p <= q

\* ------------------------------------------------------------- persistence
\* Line 516 writes a message id as the string str(k); line 503 reads it back
\* with int(k).
StrKeys(ss) == {ToString(m) : m \in DOMAIN ss}

IntOf(k) == CHOOSE n \in 0..(MaxMsg + 1) : ToString(n) = k

\* Lines 517 and 504 do the same with the user ids of the active sessions.
UserKeys(act) == {ToString(u) : u \in DOMAIN act}

UserOf(k) == CHOOSE u \in Users : ToString(u) = k

Snapshot(ss, sd, act, hist, aut, sync, mods) ==
    [sessions |-> [k \in StrKeys(ss) |-> sd[ss[IntOf(k)]]],
     active_session_per_user |-> [k \in UserKeys(act) |-> act[UserOf(k)]],
     session_history |-> LastN(hist, HISTORY_CAP),
     session_autonomy |-> aut,
     session_git_sync |-> sync,
     session_models |-> mods,
     damage |-> "none"]

InHistory(hist, sid) == \E i \in 1..Len(hist) : hist[i].session_id = sid

\* A history append that does not look for the id among the entries.
AppendToHistory(hist, sid, cwd) ==
    IF sid = None THEN hist
    ELSE Append(hist, [session_id |-> sid, cwd |-> cwd])

add_to_session_history(hist, sid, cwd) ==
    IF sid = None \/ InHistory(hist, sid) THEN hist
    ELSE Append(hist, [session_id |-> sid, cwd |-> cwd])

\* ------------------------------------------------------------------- Init
Init ==
    /\ sessions = <<>>
    /\ sdata = <<>>
    /\ active_session_per_user = <<>>
    /\ session_history = <<>>
    /\ session_autonomy = <<>>
    /\ session_models = <<>>
    /\ session_git_sync = <<>>
    /\ active_processes = <<>>
    /\ alive = {}
    /\ task_queue = <<>>
    /\ tasks = <<>>
    /\ queue_running = FALSE
    /\ queue_paused = FALSE
    /\ co = [c \in Cids |-> IdleUnit]
    /\ nextMsg = 1
    /\ disk = Snapshot(<<>>, <<>>, <<>>, <<>>, <<>>, <<>>, <<>>)

\* A resolution that looks at the active session before the replied-to link.
ResolveActiveFirst(u, r) ==
    LET linked == r # NoMsg /\ r \in DOMAIN sessions
        hasActive == u \in DOMAIN active_session_per_user
        act == active_session_per_user[u]
    IN  IF hasActive
        THEN [session_id |-> act.session_id,
              cwd |-> OrDefault(act.cwd),
              sd |-> IF act.last_msg_id # NoMsg /\ act.last_msg_id \in DOMAIN sessions
                     THEN sessions[act.last_msg_id] ELSE NoMsg,
              cont |-> act.session_id # None]
        ELSE IF linked
        THEN [session_id |-> sdata[sessions[r]].session_id,
              cwd |-> OrDefault(sdata[sessions[r]].cwd),
              sd |-> sessions[r],
              cont |-> TRUE]
        ELSE [session_id |-> None, cwd |-> DEFAULT_CWD, sd |-> NoMsg, cont |-> FALSE]

\* ---------------------------------------------------- the tool's arguments
DROID_PATH == "droid"

BOT_CONTEXT == "[context] "

\* The text of a message or of a queued task.
UserMessage == "fix the build"

\* Lines 2002 and 2089: the preamble goes before the text when no session id
\* is passed.
MessageWithContext(user_message, session_id) ==
    IF session_id = None THEN BOT_CONTEXT \o user_message ELSE user_message

\* Lines 1994-1997 and 2082-2085.
LevelAndModel(autonomy_level, model) ==
    (IF autonomy_level # "off" THEN <<"--auto", autonomy_level>> ELSE <<>>)
    \o (IF model # None THEN <<"-m", model>> ELSE <<>>)

\* Arguments that name the session before the options.
SessionFirstCmd(user_message, session_id, autonomy_level, model) ==
    <<DROID_PATH, "exec">>
    \o (IF session_id # None THEN <<"-s", session_id>> ELSE <<>>)
    \o <<MessageWithContext(user_message, session_id)>>
    \o LevelAndModel(autonomy_level, model)
    \o <<"--output-format", "stream-json">>

\* Lines 1993-2003: the argument list of handle_message_streaming.
StreamingCmd(user_message, session_id, autonomy_level, model) ==
    <<DROID_PATH, "exec">>
    \o LevelAndModel(autonomy_level, model)
    \o <<"--output-format", "stream-json">>
    \o (IF session_id # None THEN <<"-s", session_id>> ELSE <<>>)
    \o <<MessageWithContext(user_message, session_id)>>

\* Lines 2081-2090: the argument list of handle_message_simple.
SimpleCmd(user_message, session_id, autonomy_level, model) ==
    <<DROID_PATH, "exec">>
    \o LevelAndModel(autonomy_level, model)
    \o (IF session_id # None THEN <<"-s", session_id>> ELSE <<>>)
    \o <<MessageWithContext(user_message, session_id)>>

\* Lines 2175-2176: the level and the model stored for a session id.
AutonomyOf(aut, session_id) ==
    IF session_id # None /\ session_id \in DOMAIN aut THEN aut[session_id] ELSE "off"

ModelOf(mods, session_id) ==
    IF session_id # None /\ session_id \in DOMAIN mods THEN mods[session_id] ELSE None

\* ------------------------------------------------- handle_message (resolve)
\* Lines 2111-2136: the session a message continues. r is the message the
\* inbound message replies to (NoMsg when it is not a reply).
Resolve(u, r) ==
    LET linked == r # NoMsg /\ r \in DOMAIN sessions
        hasActive == u \in DOMAIN active_session_per_user
        act == active_session_per_user[u]
    IN  IF linked
        THEN [session_id |-> sdata[sessions[r]].session_id,
              cwd |-> OrDefault(sdata[sessions[r]].cwd),
              sd |-> sessions[r],
              cont |-> TRUE]
        ELSE IF hasActive
        THEN [session_id |-> act.session_id,
              cwd |-> OrDefault(act.cwd),
              sd |-> IF act.last_msg_id # NoMsg /\ act.last_msg_id \in DOMAIN sessions
                     THEN sessions[act.last_msg_id] ELSE NoMsg,
              cont |-> act.session_id # None]
        ELSE [session_id |-> None, cwd |-> DEFAULT_CWD, sd |-> NoMsg, cont |-> FALSE]

\* Lines 2104-2145 or 2104-2183: a text message arrives. The unit suspends in
\* generate_session_name_async when the resolved session_data awaits its
\* first message, and in reply_text(status_text) otherwise.
HM_Receive(u, r) ==
    /\ FreeUnits # {}
    /\ LET res == Resolve(u, r)
           awaiting == res.sd # NoMsg /\ sdata[res.sd].awaiting_first_message
       IN co' = [co EXCEPT ![FreeUnit] =
                    [IdleUnit EXCEPT !.kind = "msg",
                                     !.pc = IF awaiting THEN "naming" ELSE "status",
                                     !.user = u,
                                     !.reply_to = r,
                                     !.session_id = res.session_id,
                                     !.cwd = res.cwd,
                                     !.sd = res.sd,
                                     !.cont = res.cont,
                                     !.autonomy_level =
                                         IF awaiting THEN "off"
                                         ELSE AutonomyOf(session_autonomy, res.session_id),
                                     !.model =
                                         IF awaiting THEN None
                                         ELSE ModelOf(session_models, res.session_id)]]
    /\ UNCHANGED <<dirVars, queueVars, procVars, nextMsg, disk>>

\* Lines 2146-2183: the generated name arrives; the settings stored under the
\* old id move to the name, the shared session_data is renamed in place.
MigrateKey(f, old, new) ==
    IF old # None /\ old # new /\ old \in DOMAIN f
    THEN Put(Remove(f, old), new, f[old])
    ELSE f

HM_Named(c, name) ==
    /\ co[c].kind = "msg" /\ co[c].pc = "naming"
    /\ LET old == co[c].session_id
           u == co[c].user
       IN /\ session_autonomy' = MigrateKey(session_autonomy, old, name)
          /\ session_models' = MigrateKey(session_models, old, name)
          /\ session_git_sync' = MigrateKey(session_git_sync, old, name)
          /\ sdata' = [sdata EXCEPT ![co[c].sd] =
                          [@ EXCEPT !.session_id = name,
                                    !.awaiting_first_message = FALSE]]
          /\ active_session_per_user' =
                IF u \in DOMAIN active_session_per_user
                THEN [active_session_per_user EXCEPT ![u] = [@ EXCEPT !.session_id = name]]
                ELSE active_session_per_user
          /\ co' = [co EXCEPT ![c] = [@ EXCEPT !.pc = "status",
                                              !.session_id = name,
                                              !.old_session_id = old,
                                              !.first = TRUE,
                                              !.autonomy_level =
                                                  AutonomyOf(session_autonomy', name),
                                              !.model = ModelOf(session_models', name)]]
    /\ UNCHANGED <<sessions, session_history, queueVars, procVars, nextMsg, disk>>

\* ------------------------------------------------------------ save_sessions
\* Lines 513-526, applied to the state an action leaves behind.
Saved ==
    disk' = Snapshot(sessions', sdata', active_session_per_user', session_history',
                     session_autonomy', session_git_sync', session_models')

\* ------------------------------------------- handle_message_streaming steps
\* Lines 1989-2075 run between two suspensions. The read loop blocks in
\* readline and suspends only in status_msg.edit_text, so a bridge run is
\* either suspended at a status push (pc "push", its subprocess alive) or
\* runs to its return, or to an exception, without interruption.
BridgeOutcomes == {"suspend", "return", "raise_in_loop", "raise_in_popen"}

ReturnedIds == ToolIds \cup {None}

\* The registry and the live subprocesses after a bridge run of user u, started
\* in this step with subprocess p, ended its step with outcome o.
StartProcs(u, p, o) ==
    CASE o = "suspend" ->
            /\ active_processes' = Put(active_processes, u, p)
            /\ alive' = alive \cup {p}
      [] o = "return" ->
            /\ active_processes' = Remove(active_processes, u)
            /\ alive' = alive
      [] o = "raise_in_loop" ->
            /\ active_processes' = Put(active_processes, u, p)
            /\ alive' = alive \cup {p}
      [] OTHER ->
            /\ active_processes' = active_processes
            /\ alive' = alive

\* The same for a bridge run resumed from a status push with subprocess p.
ResumeProcs(u, p, o) ==
    CASE o = "return" ->
            /\ active_processes' = Remove(active_processes, u)
            /\ alive' = alive \ {p}
      [] OTHER ->
            /\ active_processes' = active_processes
            /\ alive' = alive

\* Lines 2183-2196: the status message is posted, the bridge starts.
HM_BridgeStart(c, o, sid) ==
    /\ co[c].kind = "msg" /\ co[c].pc = "status"
    /\ o \in BridgeOutcomes
    /\ FreePids # {}
    /\ LET p == FreePid
           cmd == StreamingCmd(UserMessage, co[c].session_id,
                               co[c].autonomy_level, co[c].model)
       IN /\ StartProcs(co[c].user, p, o)
          /\ co' = [co EXCEPT ![c] =
                CASE o = "suspend" ->
                        [@ EXCEPT !.pc = "push", !.proc = p,
                                  !.cmd_s = co[c].session_id, !.cmd = cmd]
                  [] o = "return" ->
                        [@ EXCEPT !.pc = "reply", !.new_sid = sid,
                                  !.cmd_s = co[c].session_id, !.cmd = cmd]
                  [] OTHER -> IdleUnit]
    /\ UNCHANGED <<dirVars, queueVars, nextMsg, disk>>

\* Lines 2047-2196: the status push returns and the read loop goes on to the
\* subprocess's exit (or to an exception).
HM_BridgeResume(c, o, sid) ==
    /\ co[c].kind = "msg" /\ co[c].pc = "push"
    /\ o \in {"return", "raise_in_loop"}
    /\ ResumeProcs(co[c].user, co[c].proc, o)
    /\ co' = [co EXCEPT ![c] =
                IF o = "return"
                THEN [@ EXCEPT !.pc = "reply", !.new_sid = sid, !.proc = 0]
                ELSE IdleUnit]
    /\ UNCHANGED <<dirVars, queueVars, nextMsg, disk>>

\* A resulting id that ignores what the tool returned.
ResolvedSessionId(new_session_id, session_id) == session_id

\* A link keyed by the replied-to message when that one is linked.
ReplyToKey(c, m) == IF co[c].reply_to \in DOMAIN sessions THEN co[c].reply_to ELSE m

\* Line 2199: the tool's id when it returned one, else the resolved id.
ActualSessionId(new_session_id, session_id) ==
    IF new_session_id # None THEN new_session_id ELSE session_id

\* Line 2205: the link of an exchange is keyed by the reply message m.
LinkKey(c, m) == m

\* Lines 2197-2216: the reply is sent as message m and the exchange is
\* committed.
HM_Commit(c) ==
    /\ co[c].kind = "msg" /\ co[c].pc = "reply"
    /\ nextMsg <= MaxMsg
    /\ LET m == nextMsg
           u == co[c].user
           actual_session_id == ActualSessionId(co[c].new_sid, co[c].session_id)
           new_session_data ==
               [session_id |-> actual_session_id,
                cwd |-> co[c].cwd,
                header_msg_id |-> IF co[c].sd # NoMsg
                                  THEN sdata[co[c].sd].header_msg_id ELSE NoMsg,
                awaiting_first_message |-> FALSE]
       IN /\ sdata' = Put(sdata, m, new_session_data)
          /\ sessions' = Put(sessions, LinkKey(c, m), m)
          /\ active_session_per_user' =
                Put(active_session_per_user, u,
                    [session_id |-> actual_session_id, cwd |-> co[c].cwd,
                     last_msg_id |-> m])
          /\ session_history' =
                IF actual_session_id # None /\ ~co[c].cont
                THEN add_to_session_history(session_history, actual_session_id, co[c].cwd)
                ELSE session_history
          /\ nextMsg' = m + 1
    /\ co' = [co EXCEPT ![c] = IdleUnit]
    /\ UNCHANGED <<session_autonomy, session_models, session_git_sync,
                   queueVars, procVars>>
    /\ Saved

\* --------------------------------------------- new_session (without prompt)
NewCwds == {DEFAULT_CWD, "dirA"}

\* Lines 1594-1637: /new [path] with an existing directory; the unit suspends
\* posting the header message.
NS_Start(u, cwd) ==
    /\ FreeUnits # {}
    /\ cwd \in NewCwds
    /\ co' = [co EXCEPT ![FreeUnit] =
                [IdleUnit EXCEPT !.kind = "new", !.pc = "header",
                                 !.user = u, !.cwd = cwd]]
    /\ UNCHANGED <<dirVars, queueVars, procVars, nextMsg, disk>>

\* Lines 1689-1697: the header is message h; its link is written and the unit
\* suspends posting the instruction message.
NS_Header(c) ==
    /\ co[c].kind = "new" /\ co[c].pc = "header"
    /\ nextMsg <= MaxMsg
    /\ LET h == nextMsg
       IN /\ sdata' = Put(sdata, h, [session_id |-> None, cwd |-> co[c].cwd,
                                     header_msg_id |-> h,
                                     awaiting_first_message |-> TRUE])
          /\ sessions' = Put(sessions, h, h)
          /\ co' = [co EXCEPT ![c] = [@ EXCEPT !.pc = "instruction", !.sd = h]]
          /\ nextMsg' = h + 1
    /\ UNCHANGED <<active_session_per_user, session_history, session_autonomy,
                   session_models, session_git_sync, queueVars, procVars, disk>>

\* Lines 1701-1708: the instruction is message m; it shares the header's
\* session_data, and the user's active session is reset.
NS_Instruction(c) ==
    /\ co[c].kind = "new" /\ co[c].pc = "instruction"
    /\ nextMsg <= MaxMsg
    /\ LET m == nextMsg
       IN /\ sessions' = Put(sessions, m, co[c].sd)
          /\ active_session_per_user' =
                Put(active_session_per_user, co[c].user,
                    [session_id |-> None, cwd |-> co[c].cwd, last_msg_id |-> m])
          /\ nextMsg' = m + 1
    /\ co' = [co EXCEPT ![c] = IdleUnit]
    /\ UNCHANGED <<sdata, session_history, session_autonomy, session_models,
                   session_git_sync, queueVars, procVars>>
    /\ Saved

\* ------------------------------------------------------------ proj_command
\* os.path.isdir (lines 799, 1589).
IsDir(path) == path \in NewCwds

SyncOn == [pull |-> TRUE, push |-> TRUE]

\* Lines 739-846: /proj <shortcut>; the settings are stored under the
\* synthesized id before the header message is posted.
PJ_Start(u, shortcut, temp_session_id) ==
    /\ FreeUnits # {}
    /\ shortcut \in DOMAIN PROJECT_SHORTCUTS
    /\ temp_session_id \in ProjIds \cup NamedIds
    /\ IF ~IsDir(PROJECT_SHORTCUTS[shortcut])
       THEN UNCHANGED vars
       ELSE /\ session_autonomy' = Put(session_autonomy, temp_session_id, DEFAULT_AUTONOMY)
            /\ session_models' =
                  IF resolve_model(DEFAULT_MODEL_SHORTCUT) # None
                  THEN Put(session_models, temp_session_id,
                           resolve_model(DEFAULT_MODEL_SHORTCUT))
                  ELSE session_models
            /\ session_git_sync' =
                  IF DEFAULT_SYNC THEN Put(session_git_sync, temp_session_id, SyncOn)
                  ELSE session_git_sync
            /\ co' = [co EXCEPT ![FreeUnit] =
                        [IdleUnit EXCEPT !.kind = "proj", !.pc = "header", !.user = u,
                                         !.session_id = temp_session_id,
                                         !.cwd = PROJECT_SHORTCUTS[shortcut]]]
            /\ UNCHANGED <<sessions, sdata, active_session_per_user, session_history,
                           queueVars, procVars, nextMsg, disk>>

\* Lines 848-864: the header is message h; link, active session and history
\* are written and saved.
PJ_Header(c) ==
    /\ co[c].kind = "proj" /\ co[c].pc = "header"
    /\ nextMsg <= MaxMsg
    /\ LET h == nextMsg
       IN /\ sdata' = Put(sdata, h, [session_id |-> co[c].session_id,
                                     cwd |-> co[c].cwd,
                                     header_msg_id |-> h,
                                     awaiting_first_message |-> TRUE])
          /\ sessions' = Put(sessions, h, h)
          /\ active_session_per_user' =
                Put(active_session_per_user, co[c].user,
                    [session_id |-> co[c].session_id, cwd |-> co[c].cwd,
                     last_msg_id |-> h])
          /\ session_history' =
                add_to_session_history(session_history, co[c].session_id, co[c].cwd)
          /\ nextMsg' = h + 1
    /\ co' = [co EXCEPT ![c] = IdleUnit]
    /\ UNCHANGED <<session_autonomy, session_models, session_git_sync,
                   queueVars, procVars>>
    /\ Saved

ReplyTargets == {NoMsg, UnlinkedMsg} \cup DOMAIN sessions

\* The session directory under direct messages, /new and /proj. A bridge run
\* returns without suspending, the tool answering with or without an id, or
\* fails to start.
SessionNext ==
    \/ \E u \in Users, r \in ReplyTargets : HM_Receive(u, r)
    \/ \E c \in Cids, n \in GenNames : HM_Named(c, n)
    \/ \E c \in Cids, sid \in {"t1", None} : HM_BridgeStart(c, "return", sid)
    \/ \E c \in Cids : HM_BridgeStart(c, "raise_in_popen", None)
    \/ \E c \in Cids : HM_Commit(c)
    \/ \E u \in Users : NS_Start(u, DEFAULT_CWD)
    \/ \E c \in Cids : NS_Header(c)
    \/ \E c \in Cids : NS_Instruction(c)
    \/ \E u \in Users, t \in ProjIds : PJ_Start(u, "pa", t)
    \/ \E c \in Cids : PJ_Header(c)

SpecSessions == Init /\ [][SessionNext]_vars

\* -------------------------------------------------------------- task queue
QId(t) == "q-" \o ToString(t)

Status(t) == tasks[t].status

\* The positions of the tasks that are not finished.
UnfinishedIdx(q) == {i \in 1..Len(q) : Status(q[i]) \in {"pending", "running"}}

\* Line 1183 (and 1159, 1421): the positions of the pending tasks.
PendingIdx(q) == {i \in 1..Len(q) : Status(q[i]) = "pending"}

HasPending == PendingIdx(task_queue) # {}

\* The task at the last position of the list among the positions idx.
LastIn(q, idx) ==
    IF idx = {} THEN 0 ELSE q[CHOOSE i \in idx : \A j \in idx : i >= j]

\* Lines 1183-1186 (and 1309-1313): the task at the first position of the list
\* among the positions idx; 0 when there is none.
FirstIn(q, idx) ==
    IF idx = {} THEN 0 ELSE q[CHOOSE i \in idx : \A j \in idx : i <= j]

\* Lines 1197-1201.
HasPath(t) == PROJECT_SHORTCUTS[tasks[t].project] # ""

RunnableIdx(q) == {i \in PendingIdx(q) : HasPath(q[i])}

AddInputs ==
    {[project |-> "pa", autonomy |-> DEFAULT_AUTONOMY,
      model |-> DEFAULT_MODEL_SHORTCUT, sync |-> DEFAULT_SYNC],
     [project |-> "pb", autonomy |-> "off",
      model |-> DEFAULT_MODEL_SHORTCUT, sync |-> FALSE]}

\* Lines 1085-1097 (and 1344-1354): a pending task is appended at the tail.
Enqueue(inp) ==
    /\ Len(tasks) < MaxTasks
    /\ LET id == Len(tasks) + 1
       IN /\ tasks' = Append(tasks, [project |-> inp.project, autonomy |-> inp.autonomy,
                                     model |-> inp.model, sync |-> inp.sync,
                                     status |-> "pending"])
          /\ task_queue' = Append(task_queue, id)
    /\ UNCHANGED <<dirVars, procVars, queue_running, queue_paused, co, nextMsg, disk>>

AddCommand(inp) == inp \in AddInputs /\ Enqueue(inp)

VoiceAddTask(project) ==
    /\ project \in DOMAIN PROJECT_SHORTCUTS
    /\ Enqueue([project |-> project, autonomy |-> DEFAULT_AUTONOMY,
                model |-> DEFAULT_MODEL_SHORTCUT, sync |-> DEFAULT_SYNC])

\* A runner (process_queue) starts for user u, suspended before its first
\* evaluation of the loop condition.
StartRunner(u) ==
    /\ FreeUnits # {}
    /\ queue_running' = TRUE
    /\ queue_paused' = FALSE
    /\ co' = [co EXCEPT ![FreeUnit] =
                [IdleUnit EXCEPT !.kind = "runner", !.pc = "loop", !.user = u]]
    /\ UNCHANGED <<dirVars, procVars, task_queue, tasks, nextMsg, disk>>

\* Lines 1145-1171.
RunCommand(u) ==
    IF task_queue = <<>> \/ ~HasPending \/ queue_running
    THEN UNCHANGED vars
    ELSE StartRunner(u)

\* Lines 1417-1430.
VoiceRunQueue(u) ==
    IF task_queue = <<>> \/ ~HasPending
    THEN UNCHANGED vars
    ELSE StartRunner(u)

\* Lines 1274-1286.
PauseCommand ==
    /\ queue_paused' = (IF queue_running THEN TRUE ELSE queue_paused)
    /\ UNCHANGED <<dirVars, procVars, task_queue, tasks, queue_running, co, nextMsg, disk>>

\* Lines 1432-1435.
VoicePauseQueue ==
    /\ queue_paused' = TRUE
    /\ UNCHANGED <<dirVars, procVars, task_queue, tasks, queue_running, co, nextMsg, disk>>

\* A clear that leaves the running flag as it is.
ClearListOnly ==
    /\ task_queue' = <<>>
    /\ queue_paused' = FALSE
    /\ UNCHANGED <<dirVars, procVars, tasks, queue_running, co, nextMsg, disk>>

\* Lines 1289-1301 (and 1437-1443).
ClearQueue ==
    /\ task_queue' = <<>>
    /\ queue_running' = FALSE
    /\ queue_paused' = FALSE
    /\ UNCHANGED <<dirVars, procVars, tasks, co, nextMsg, disk>>

ClearCommand == ClearQueue

VoiceClearQueue == ClearQueue

\* Lines 1304-1315: the first task of the list that is running is failed.
SkipCommand ==
    LET t == FirstIn(task_queue,
                     {i \in 1..Len(task_queue) : Status(task_queue[i]) = "running"})
    IN /\ tasks' = IF t = 0 THEN tasks ELSE [tasks EXCEPT ![t].status = "failed"]
       /\ UNCHANGED <<dirVars, procVars, task_queue, queue_running, queue_paused,
                      co, nextMsg, disk>>

\* ---------------------------------------------------------- process_queue
\* A loop condition that does not look at the pause flag.
RunningOnly == queue_running

\* Line 1180: the runner goes on to the next task while this holds.
LoopCondition == queue_running /\ ~queue_paused

\* Lines 1180-1234, from the loop condition to the suspension in
\* reply_text(status): pending tasks whose project has no path are failed on
\* the way, the first pending task with a path is marked running and becomes
\* the user's active session.
R_Loop(c) ==
    /\ co[c].kind = "runner" /\ co[c].pc = "loop"
    /\ IF ~LoopCondition
       THEN /\ queue_running' = FALSE
            /\ co' = [co EXCEPT ![c] = IdleUnit]
            /\ UNCHANGED <<dirVars, procVars, task_queue, tasks, queue_paused,
                           nextMsg, disk>>
       ELSE LET t == FirstIn(task_queue, RunnableIdx(task_queue))
                before == {task_queue[i] : i \in
                              {j \in PendingIdx(task_queue) :
                                  /\ ~HasPath(task_queue[j])
                                  /\ (t = 0 \/ \E k \in j..Len(task_queue) :
                                                   task_queue[k] = t)}}
                session_id == QId(t)
                model == resolve_model(tasks[t].model)
                resolved_cwd == PROJECT_SHORTCUTS[tasks[t].project]
            IN IF t = 0
               THEN /\ tasks' = [x \in DOMAIN tasks |->
                                   IF x \in before
                                   THEN [tasks[x] EXCEPT !.status = "failed"]
                                   ELSE tasks[x]]
                    /\ queue_running' = FALSE
                    /\ co' = [co EXCEPT ![c] = IdleUnit]
                    /\ UNCHANGED <<dirVars, procVars, task_queue, queue_paused,
                                   nextMsg, disk>>
               ELSE /\ tasks' = [x \in DOMAIN tasks |->
                                   IF x = t THEN [tasks[x] EXCEPT !.status = "running"]
                                   ELSE IF x \in before
                                   THEN [tasks[x] EXCEPT !.status = "failed"]
                                   ELSE tasks[x]]
                    /\ session_autonomy' = Put(session_autonomy, session_id, tasks[t].autonomy)
                    /\ session_models' =
                          IF model # None THEN Put(session_models, session_id, model)
                          ELSE session_models
                    /\ session_git_sync' =
                          IF tasks[t].sync THEN Put(session_git_sync, session_id, SyncOn)
                          ELSE session_git_sync
                    /\ active_session_per_user' =
                          Put(active_session_per_user, co[c].user,
                              [session_id |-> session_id, cwd |-> resolved_cwd,
                               last_msg_id |-> NoMsg])
                    /\ co' = [co EXCEPT ![c] = [@ EXCEPT !.pc = "announce", !.task = t,
                                                        !.session_id = session_id,
                                                        !.cwd = resolved_cwd,
                                                        !.autonomy_level = tasks[t].autonomy,
                                                        !.model = model, !.cmd = <<>>]]
                    /\ UNCHANGED <<sessions, sdata, session_history, procVars,
                                   task_queue, queue_running, queue_paused, nextMsg, disk>>

\* Lines 1236-1246 and 1263-1269: the status message is posted and the bridge
\* starts for the task; an exception fails the task.
R_BridgeStart(c, o, sid) ==
    /\ co[c].kind = "runner" /\ co[c].pc = "announce"
    /\ o \in BridgeOutcomes
    /\ FreePids # {}
    /\ LET p == FreePid
           cmd == StreamingCmd(UserMessage, co[c].session_id,
                               co[c].autonomy_level, co[c].model)
       IN /\ StartProcs(co[c].user, p, o)
          /\ co' = [co EXCEPT ![c] =
                CASE o = "suspend" ->
                        [@ EXCEPT !.pc = "push", !.proc = p,
                                  !.cmd_s = co[c].session_id, !.cmd = cmd]
                  [] o = "return" ->
                        [@ EXCEPT !.pc = "publish", !.new_sid = sid,
                                  !.cmd_s = co[c].session_id, !.cmd = cmd]
                  [] OTHER -> [@ EXCEPT !.pc = "loop"]]
    /\ tasks' = IF o \in {"raise_in_loop", "raise_in_popen"}
                THEN [tasks EXCEPT ![co[c].task].status = "failed"]
                ELSE tasks
    /\ UNCHANGED <<dirVars, task_queue, queue_running, queue_paused, nextMsg, disk>>

\* The status push returns and the bridge run goes on to its end.
R_BridgeResume(c, o, sid) ==
    /\ co[c].kind = "runner" /\ co[c].pc = "push"
    /\ o \in {"return", "raise_in_loop"}
    /\ ResumeProcs(co[c].user, co[c].proc, o)
    /\ co' = [co EXCEPT ![c] =
                IF o = "return"
                THEN [@ EXCEPT !.pc = "publish", !.new_sid = sid, !.proc = 0]
                ELSE [@ EXCEPT !.pc = "loop", !.proc = 0]]
    /\ tasks' = IF o = "raise_in_loop"
                THEN [tasks EXCEPT ![co[c].task].status = "failed"]
                ELSE tasks
    /\ UNCHANGED <<dirVars, task_queue, queue_running, queue_paused, nextMsg, disk>>

\* Lines 1248-1269: the result is published, the task is marked completed and
\* the runner sleeps before the next evaluation of the loop condition.
R_Publish(c) ==
    /\ co[c].kind = "runner" /\ co[c].pc = "publish"
    /\ tasks' = [tasks EXCEPT ![co[c].task].status = "completed"]
    /\ co' = [co EXCEPT ![c] = [@ EXCEPT !.pc = "loop", !.new_sid = None]]
    /\ UNCHANGED <<dirVars, procVars, task_queue, queue_running, queue_paused,
                   nextMsg, disk>>

\* The task queue under the commands and the voice intents. A bridge run
\* returns, suspends at a status push, or fails to start.
QueueNext ==
    \/ \E inp \in AddInputs : AddCommand(inp)
    \/ \E p \in DOMAIN PROJECT_SHORTCUTS : VoiceAddTask(p)
    \/ \E u \in Users : RunCommand(u)
    \/ \E u \in Users : VoiceRunQueue(u)
    \/ PauseCommand
    \/ VoicePauseQueue
    \/ ClearCommand
    \/ VoiceClearQueue
    \/ SkipCommand
    \/ \E c \in Cids : R_Loop(c)
    \/ \E c \in Cids, o \in {"suspend", "return", "raise_in_popen"} :
          R_BridgeStart(c, o, None)
    \/ \E c \in Cids : R_BridgeResume(c, "return", None)
    \/ \E c \in Cids : R_Publish(c)

SpecQueue == Init /\ [][QueueNext]_vars

\* The steps of the runner in unit c. A suspended runner is resumed when what
\* it awaits (a message posted, a subprocess that exits, the delay between two
\* tasks) is done, so the next step of every runner is eventually taken.
RunnerStep(c) ==
    \/ R_Loop(c)
    \/ \E o \in {"suspend", "return", "raise_in_popen"} : R_BridgeStart(c, o, None)
    \/ R_BridgeResume(c, "return", None)
    \/ R_Publish(c)

SpecQueueLive ==
    Init /\ [][QueueNext]_vars /\ \A c \in Cids : WF_vars(RunnerStep(c))

\* Lines 1227-1234: reply_text for the announcement raises. The call stands
\* before the try of line 1236, so the exception leaves process_queue and
\* the handler that awaited it.
R_AnnounceFails(c) ==
    /\ co[c].kind = "runner" /\ co[c].pc = "announce"
    /\ co' = [co EXCEPT ![c] = IdleUnit]
    /\ UNCHANGED <<dirVars, queueVars, procVars, nextMsg, disk>>

\* The task queue when the transport may refuse an announcement.
AnnounceNext ==
    \/ QueueNext
    \/ \E c \in Cids : R_AnnounceFails(c)

SpecAnnounce == Init /\ [][AnnounceNext]_vars

\* Lines 1161-1163: /run while queue_running is set. The handler changes
\* nothing and suspends in reply_text("already running"), after which it
\* returns.
RunRefused(u) ==
    /\ task_queue # <<>> /\ HasPending /\ queue_running
    /\ FreeUnits # {}
    /\ co' = [co EXCEPT ![FreeUnit] =
                [IdleUnit EXCEPT !.kind = "run", !.pc = "refused", !.user = u]]
    /\ UNCHANGED <<dirVars, queueVars, procVars, nextMsg, disk>>

\* A /run has been answered with "already running".
Refused == \E c \in Cids : co[c].kind = "run" /\ co[c].pc = "refused"

\* The queue under /add, /run and /pause, with no clear and with no pause
\* after a /run that was answered with "already running".
ResumeNext ==
    \/ \E inp \in AddInputs : AddCommand(inp)
    \/ \E u \in Users : RunCommand(u)
    \/ \E u \in Users : RunRefused(u)
    \/ ~Refused /\ PauseCommand
    \/ \E c \in Cids : R_Loop(c)
    \/ \E c \in Cids, o \in {"suspend", "return", "raise_in_popen"} :
          R_BridgeStart(c, o, None)
    \/ \E c \in Cids : R_BridgeResume(c, "return", None)
    \/ \E c \in Cids : R_Publish(c)

SpecResumeLive ==
    Init /\ [][ResumeNext]_vars /\ \A c \in Cids : WF_vars(RunnerStep(c))

\* The queue when nobody pauses or clears it.
RunNext ==
    \/ \E inp \in AddInputs : AddCommand(inp)
    \/ \E p \in DOMAIN PROJECT_SHORTCUTS : VoiceAddTask(p)
    \/ \E u \in Users : RunCommand(u)
    \/ \E u \in Users : VoiceRunQueue(u)
    \/ SkipCommand
    \/ \E c \in Cids : R_Loop(c)
    \/ \E c \in Cids, o \in {"suspend", "return", "raise_in_popen"} :
          R_BridgeStart(c, o, None)
    \/ \E c \in Cids : R_BridgeResume(c, "return", None)
    \/ \E c \in Cids : R_Publish(c)

SpecRunLive ==
    Init /\ [][RunNext]_vars /\ \A c \in Cids : WF_vars(RunnerStep(c))

\* ------------------------------------------------------------ stop_command
\* A subprocess exits by itself (the bridge sees it at line 2028).
ProcExit(p) ==
    /\ p \in alive
    /\ alive' = alive \ {p}
    /\ UNCHANGED <<dirVars, queueVars, active_processes, co, nextMsg, disk>>

\* A termination that leaves the subprocess running.
NoTerminate(a, p) == a

\* Lines 1787-1792: terminate, wait two seconds, kill when the wait fails;
\* nothing when the subprocess has exited already.
Terminate(a, p) == a \ {p}

\* Lines 1773-1802.
StopCommand(u) ==
    IF u \notin DOMAIN active_processes
    THEN UNCHANGED vars
    ELSE /\ active_processes' = Remove(active_processes, u)
         /\ alive' = Terminate(alive, active_processes[u])
         /\ UNCHANGED <<dirVars, queueVars, co, nextMsg, disk>>

\* Direct messages that are no replies, whose bridge runs suspend, return or
\* fail, with stop requests and subprocesses that exit by themselves.
ProcNext ==
    \/ \E u \in Users : HM_Receive(u, NoMsg)
    \/ \E c \in Cids, o \in BridgeOutcomes : HM_BridgeStart(c, o, "t1")
    \/ \E c \in Cids, o \in {"return", "raise_in_loop"} : HM_BridgeResume(c, o, "t1")
    \/ \E c \in Cids : HM_Commit(c)
    \/ \E u \in Users : StopCommand(u)
    \/ \E p \in Pids : ProcExit(p)

SpecProcs == Init /\ [][ProcNext]_vars

\* ---------------------------------------------------------------- settings
ALLOWED_USERS == Users

\* Lines 348-351.
is_authorized(user_id) ==
    IF ALLOWED_USERS = {} THEN FALSE ELSE user_id \in ALLOWED_USERS

\* A handler that starts with the is_authorized test, called by an identity
\* that fails it.
Denied(u) == ~is_authorized(u) /\ UNCHANGED vars

\* Lines 1769 and 901.
SetAutonomy(aut, sid, level) == Put(aut, sid, level)

\* Lines 911-913.
SetModel(mods, sid, short) ==
    IF resolve_model(short) # None THEN Put(mods, sid, resolve_model(short)) ELSE mods

SyncActions == {"pull", "push", "on", "off"}

\* A sync setting whose "on" flips both flags instead of setting them.
FlipSync(sync, sid, action) ==
    LET current == IF sid \in DOMAIN sync THEN sync[sid]
                   ELSE [pull |-> AUTO_GIT_PULL, push |-> AUTO_GIT_PUSH]
    IN Put(sync, sid,
           CASE action \in {"pull", "on"} -> [current EXCEPT !.pull = ~current.pull]
             [] action = "push" -> [current EXCEPT !.push = ~current.push]
             [] OTHER -> [pull |-> FALSE, push |-> FALSE])

\* Lines 933-975: pull and push flip one flag, on and off set both.
SetSync(sync, sid, action) ==
    LET current == IF sid \in DOMAIN sync THEN sync[sid]
                   ELSE [pull |-> AUTO_GIT_PULL, push |-> AUTO_GIT_PUSH]
    IN Put(sync, sid,
           CASE action = "pull" -> [current EXCEPT !.pull = ~current.pull]
             [] action = "push" -> [current EXCEPT !.push = ~current.push]
             [] action = "on" -> [pull |-> TRUE, push |-> TRUE]
             [] OTHER -> [pull |-> FALSE, push |-> FALSE])

ActiveId(u) ==
    IF u \in DOMAIN active_session_per_user
    THEN active_session_per_user[u].session_id ELSE None

\* Lines 1734-1771: /auto <level>.
AutoCommand(u, level) ==
    /\ is_authorized(u)
    /\ IF level \notin AUTONOMY_LEVELS \/ ActiveId(u) = None
       THEN UNCHANGED vars
       ELSE /\ session_autonomy' = SetAutonomy(session_autonomy, ActiveId(u), level)
            /\ UNCHANGED <<sessions, sdata, active_session_per_user, session_history,
                           session_models, session_git_sync, queueVars, procVars,
                           co, nextMsg>>
            /\ Saved

\* Lines 921-977: /sync <action>.
SyncCommand(u, action) ==
    /\ is_authorized(u)
    /\ IF action \notin SyncActions \/ ActiveId(u) = None
       THEN UNCHANGED vars
       ELSE /\ session_git_sync' = SetSync(session_git_sync, ActiveId(u), action)
            /\ UNCHANGED <<sessions, sdata, active_session_per_user, session_history,
                           session_autonomy, session_models, queueVars, procVars,
                           co, nextMsg>>
            /\ Saved

\* Lines 896-904: the button setauto_<session>_<level>, pressed by u.
SetAutoCallback(u, sid, level) ==
    /\ u \in Identities
    /\ session_autonomy' = SetAutonomy(session_autonomy, sid, level)
    /\ UNCHANGED <<sessions, sdata, active_session_per_user, session_history,
                   session_models, session_git_sync, queueVars, procVars, co, nextMsg>>
    /\ Saved

\* Lines 906-915: the button setmodel_<session>_<model>, pressed by u.
SetModelCallback(u, sid, short) ==
    /\ u \in Identities
    /\ IF resolve_model(short) = None
       THEN UNCHANGED vars
       ELSE /\ session_models' = SetModel(session_models, sid, short)
            /\ UNCHANGED <<sessions, sdata, active_session_per_user, session_history,
                           session_autonomy, session_git_sync, queueVars, procVars,
                           co, nextMsg>>
            /\ Saved

SetLevels == {"off", "unsafe"}

SetModels == {"sonnet", "gpt-5.1", "nomodel"}

\* The settings of the sessions that /proj opens, under /auto, /sync and the
\* setting buttons, pressed by any identity.
SettingsNext ==
    \/ \E u \in Users, t \in ProjIds : PJ_Start(u, "pa", t)
    \/ \E c \in Cids : PJ_Header(c)
    \/ \E u \in Users, l \in SetLevels : AutoCommand(u, l)
    \/ \E u \in Users, a \in SyncActions : SyncCommand(u, a)
    \/ \E u \in Identities, sid \in ProjIds \cup {"t1"}, l \in SetLevels :
          SetAutoCallback(u, sid, l)
    \/ \E u \in Identities, sid \in ProjIds \cup {"t1"}, m \in SetModels :
          SetModelCallback(u, sid, m)
    \/ \E u \in Identities : Denied(u)

SpecSettings == Init /\ [][SettingsNext]_vars

\* ------------------------------------------------------ restart and history
\* What can be wrong with the snapshot file when it is read: it is no JSON
\* ("syntax"), or it is JSON whose "sessions", or whose
\* "active_session_per_user", holds a key that int() rejects.
Damages == {"syntax", "sessions_keys", "active_keys"}

\* Lines 358-374: the directory of a bot that has loaded nothing.
EmptyDirectory ==
    [links |-> <<>>, active_session_per_user |-> <<>>, session_history |-> <<>>,
     session_autonomy |-> <<>>, session_git_sync |-> <<>>, session_models |-> <<>>]

\* Lines 497-511: the directory that load_sessions leaves in a bot that just
\* started, given the file d. Every loaded link holds a session_data of its
\* own. The globals are assigned one by one, so an exception at line 504
\* comes after the links were assigned.
Load(d) ==
    LET links == [m \in {IntOf(k) : k \in DOMAIN d.sessions} |-> d.sessions[ToString(m)]]
    IN CASE d.damage \in {"syntax", "sessions_keys"} -> EmptyDirectory
         [] d.damage = "active_keys" -> [EmptyDirectory EXCEPT !.links = links]
         [] OTHER ->
            [links |-> links,
             active_session_per_user |->
                 [u \in {UserOf(k) : k \in DOMAIN d.active_session_per_user} |->
                     d.active_session_per_user[ToString(u)]],
             session_history |-> d.session_history,
             session_autonomy |-> d.session_autonomy,
             session_git_sync |-> d.session_git_sync,
             session_models |-> d.session_models]

\* Lines 2238-2239 (and 358-374): the bot is started again; what is not in
\* the snapshot starts empty.
Restart ==
    LET d == Load(disk)
    IN /\ sessions' = [m \in DOMAIN d.links |-> m]
       /\ sdata' = d.links
       /\ active_session_per_user' = d.active_session_per_user
       /\ session_history' = d.session_history
       /\ session_autonomy' = d.session_autonomy
       /\ session_git_sync' = d.session_git_sync
       /\ session_models' = d.session_models
       /\ active_processes' = <<>>
       /\ task_queue' = <<>>
       /\ queue_running' = FALSE
       /\ queue_paused' = FALSE
       /\ co' = [c \in Cids |-> IdleUnit]
       /\ UNCHANGED <<tasks, alive, nextMsg, disk>>

\* Line 1377: the id a voice project switch synthesizes.
SwitchId(i) == "tg-" \o ToString(i)

\* Lines 1365-1400: the voice intent switch_project for a known project.
VoiceSwitchProject(u, project, sid) ==
    /\ is_authorized(u)
    /\ project \in DOMAIN PROJECT_SHORTCUTS
    /\ session_autonomy' = Put(session_autonomy, sid, DEFAULT_AUTONOMY)
    /\ session_models' = Put(session_models, sid, resolve_model(DEFAULT_MODEL_SHORTCUT))
    /\ session_git_sync' =
          IF DEFAULT_SYNC THEN Put(session_git_sync, sid, SyncOn) ELSE session_git_sync
    /\ active_session_per_user' =
          Put(active_session_per_user, u,
              [session_id |-> sid, cwd |-> PROJECT_SHORTCUTS[project],
               last_msg_id |-> NoMsg])
    /\ session_history' =
          add_to_session_history(session_history, sid, PROJECT_SHORTCUTS[project])
    /\ UNCHANGED <<sessions, sdata, queueVars, procVars, co, nextMsg>>
    /\ Saved

\* The directory after n voice project switches of user u since the bot was
\* first started.
Switched(u, n) ==
    LET ids == {SwitchId(i) : i \in 1..n}
    IN [session_autonomy |-> [x \in ids |-> DEFAULT_AUTONOMY],
        session_models |-> [x \in ids |-> resolve_model(DEFAULT_MODEL_SHORTCUT)],
        session_git_sync |-> [x \in ids |-> SyncOn],
        active_session_per_user |->
            IF n = 0 THEN <<>>
            ELSE Put(<<>>, u, [session_id |-> SwitchId(n), cwd |-> PROJECT_SHORTCUTS["pa"],
                               last_msg_id |-> NoMsg]),
        session_history |->
            [i \in 1..n |-> [session_id |-> SwitchId(i), cwd |-> PROJECT_SHORTCUTS["pa"]]]]

MaxSwitches == 2   \* project switches on top of the ones already made

SwitchedBefore == {0, HISTORY_CAP - 1, HISTORY_CAP}

InitSwitched ==
    \E n \in SwitchedBefore :
        LET d == Switched("u1", n)
        IN /\ sessions = <<>>
           /\ sdata = <<>>
           /\ active_session_per_user = d.active_session_per_user
           /\ session_history = d.session_history
           /\ session_autonomy = d.session_autonomy
           /\ session_models = d.session_models
           /\ session_git_sync = d.session_git_sync
           /\ active_processes = <<>>
           /\ alive = {}
           /\ task_queue = <<>>
           /\ tasks = <<>>
           /\ queue_running = FALSE
           /\ queue_paused = FALSE
           /\ co = [c \in Cids |-> IdleUnit]
           /\ nextMsg = 1
           /\ disk = Snapshot(<<>>, <<>>, d.active_session_per_user, d.session_history,
                              d.session_autonomy, d.session_git_sync, d.session_models)

\* Project switches by voice, to a new id or back to the first one while the
\* history holds it, a sync setting on the active session, one exchange at a
\* time, and restarts.
HistoryNext ==
    \/ \E u \in Users :
          /\ Len(session_history) < HISTORY_CAP + MaxSwitches
          /\ \E sid \in {SwitchId(1), SwitchId(Len(session_history) + 1)} :
                /\ sid = SwitchId(1) => InHistory(session_history, sid)
                /\ VoiceSwitchProject(u, "pa", sid)
    \/ \E u \in Users : SyncCommand(u, "off")
    \/ \E u \in Users : FreeUnits = Cids /\ HM_Receive(u, NoMsg)
    \/ \E c \in Cids : HM_BridgeStart(c, "return", None)
    \/ \E c \in Cids : HM_Commit(c)
    \/ Restart

SpecHistory == InitSwitched /\ [][HistoryNext]_vars

\* -------------------------------------------------- a damaged snapshot
\* The snapshot file is damaged from outside (a write cut short, an edit).
Damage(k) ==
    /\ k \in Damages
    /\ disk.damage = "none"
    /\ disk' = [disk EXCEPT !.damage = k]
    /\ UNCHANGED <<dirVars, queueVars, procVars, co, nextMsg>>

\* Sessions opened with /proj and continued by messages, with restarts from
\* sound and from damaged snapshots.
DamageNext ==
    \/ \E u \in Users, t \in ProjIds : FreeUnits = Cids /\ PJ_Start(u, "pa", t)
    \/ \E c \in Cids : PJ_Header(c)
    \/ \E u \in Users : FreeUnits = Cids /\ HM_Receive(u, NoMsg)
    \/ \E c \in Cids, n \in GenNames : HM_Named(c, n)
    \/ \E c \in Cids, sid \in {"t1", None} : HM_BridgeStart(c, "return", sid)
    \/ \E c \in Cids : HM_Commit(c)
    \/ \E k \in Damages : Damage(k)
    \/ Restart

SpecDamage == Init /\ [][DamageNext]_vars

\* Sessions opened with /new and continued by messages and by replies to any
\* linked message, one handler at a time, with restarts.
NewNext ==
    \/ \E u \in Users : FreeUnits = Cids /\ NS_Start(u, DEFAULT_CWD)
    \/ \E c \in Cids : NS_Header(c)
    \/ \E c \in Cids : NS_Instruction(c)
    \/ \E u \in Users, r \in {NoMsg} \cup DOMAIN sessions :
          FreeUnits = Cids /\ HM_Receive(u, r)
    \/ \E c \in Cids, n \in GenNames : HM_Named(c, n)
    \/ \E c \in Cids, sid \in {"t1", None} : HM_BridgeStart(c, "return", sid)
    \/ \E c \in Cids : HM_Commit(c)
    \/ Restart

SpecNew == Init /\ [][NewNext]_vars

\* --------------------------------------------------------- inline buttons
\* str.split("_") on a session id of this model.
Segments(sid) == IF sid = "my_app" THEN <<"my", "app">> ELSE <<sid>>

\* Lines 869-871 and 892-897: the callback data of an autonomy button of
\* session sid, setauto_<sid>_<level>, as data.split("_") returns it.
SplitData(sid, level) == <<"setauto">> \o Segments(sid) \o <<level>>

\* The levels the buttons of line 869-871 offer.
ButtonLevels == {"high", "medium", "off"}

\* Lines 888-904: an autonomy button under the header of session sid is
\* pressed.
ButtonPress(u, sid, level) ==
    /\ InHistory(session_history, sid)
    /\ level \in ButtonLevels
    /\ LET parts == SplitData(sid, level)
       IN IF Len(parts) >= 3
          THEN SetAutoCallback(u, parts[2], parts[3])
          ELSE UNCHANGED vars

\* Sessions opened with /proj under a synthesized id or under a given name,
\* their autonomy set with /auto and with the buttons, and the exchanges
\* that follow.
ButtonNext ==
    \/ \E u \in Users, t \in ProjIds \cup NamedIds : PJ_Start(u, "pa", t)
    \/ \E c \in Cids : PJ_Header(c)
    \/ \E u \in Users, l \in SetLevels \cup {"app"} : AutoCommand(u, l)
    \/ \E u \in Users, sid \in ProjIds \cup NamedIds, l \in ButtonLevels :
          ButtonPress(u, sid, l)
    \/ \E u \in Users : FreeUnits = Cids /\ HM_Receive(u, NoMsg)
    \/ \E c \in Cids, n \in GenNames : HM_Named(c, n)
    \/ \E c \in Cids : HM_BridgeStart(c, "return", "t1")
    \/ \E c \in Cids : HM_Commit(c)

SpecButtons == Init /\ [][ButtonNext]_vars

\* ------------------------------------------------------- path arguments
\* The arguments of /new in this model: none, the absolute path of the
\* existing directory "dirA", and an absolute path where nothing is.
PathArgs == {"", "/dirA", "/gone"}

\* Lines 1580-1592: the directory a path argument names; None when
\* os.path.isdir fails.
resolve_cwd(path_arg) ==
    CASE path_arg = "" -> DEFAULT_CWD
      [] path_arg = "/dirA" -> "dirA"
      [] OTHER -> None

\* Lines 1594-1637: /new [path]. A path with a "/" that names no directory
\* is answered with "Directory not found".
NewSession(u, arg) ==
    LET resolved_cwd == IF arg # "" THEN resolve_cwd(arg) ELSE DEFAULT_CWD
    IN IF arg # "" /\ resolved_cwd = None
       THEN UNCHANGED vars
       ELSE NS_Start(u, resolved_cwd)

\* /new and /proj with every path argument and shortcut, the first voice
\* project switches to every project, and the exchanges that follow.
PathNext ==
    \/ \E u \in Users, arg \in PathArgs : NewSession(u, arg)
    \/ \E c \in Cids : NS_Header(c)
    \/ \E c \in Cids : NS_Instruction(c)
    \/ \E u \in Users, p \in DOMAIN PROJECT_SHORTCUTS, t \in ProjIds : PJ_Start(u, p, t)
    \/ \E c \in Cids : PJ_Header(c)
    \/ \E u \in Users, p \in DOMAIN PROJECT_SHORTCUTS :
          /\ Len(session_history) < MaxSwitches
          /\ VoiceSwitchProject(u, p, SwitchId(Len(session_history) + 1))
    \/ \E u \in Users : HM_Receive(u, NoMsg)
    \/ \E c \in Cids, n \in GenNames : HM_Named(c, n)
    \/ \E c \in Cids : HM_BridgeStart(c, "return", "t1")
    \/ \E c \in Cids : HM_Commit(c)

SpecPaths == Init /\ [][PathNext]_vars

\* ------------------------------------------------------- the output stream
\* A line of the subprocess's stdout by its form: a JSON object ("object"),
\* JSON that is no object, such as a number, a string or a list ("value"),
\* text that json.loads rejects ("garbled") and whitespace ("blank"). The
\* other fields are the values of the keys written in the line, Absent for a
\* key that is not in it and None for a JSON null; in a garbled line they
\* are the values that follow the quoted key in the text. A tool call
\* carries its tool under toolName and its parameters under input.
Absent == "absent"

Line(form, type, finalText, session_id, message) ==
    [form |-> form, type |-> type, finalText |-> finalText,
     session_id |-> session_id, message |-> message,
     toolName |-> Absent, file_path |-> Absent, pattern |-> Absent,
     command |-> Absent]

StdoutLines ==
    {Line("blank", Absent, Absent, Absent, Absent),
     Line("object", "tool_call", Absent, Absent, Absent),
     Line("object", "other", Absent, Absent, Absent),
     Line("object", "completion", "A", "t1", Absent),
     Line("object", "completion", "B ", Absent, Absent),
     Line("object", "completion", None, "t2", Absent),
     Line("object", "error", Absent, Absent, "m"),
     Line("value", Absent, Absent, Absent, Absent),
     Line("garbled", "completion", "A", "t1", Absent),
     Line("garbled", Absent, Absent, Absent, Absent)}

Stdouts == UNION {[1..n -> StdoutLines] : n \in 0..MaxLines}

Stderrs == {"", "E "}

\* What a subprocess does in one run: the lines it writes, its stderr text,
\* and whether it ever exits.
RunInputs == [lines : Stdouts, stderr : Stderrs, exits : BOOLEAN]

\* Runs of tool calls, long enough for the window of five to fill and turn,
\* with the completion event after them.
MaxTools == 6

ToolCall(toolName, file_path, pattern, command) ==
    [Line("object", "tool_call", Absent, Absent, Absent)
        EXCEPT !.toolName = toolName, !.file_path = file_path,
               !.pattern = pattern, !.command = command]

ToolLines ==
    {ToolCall("Read", "a.py", Absent, Absent),
     ToolCall("Execute", Absent, Absent, "ls")}

ToolRuns ==
    [lines : {tools \o <<Line("object", "completion", "A", "t1", Absent)>> :
                 tools \in UNION {[1..n -> ToolLines] : n \in 0..MaxTools}},
     stderr : {""}, exits : {TRUE}]

\* Runs of one call of a file tool, over paths of every length up to MaxPath.
MaxPath == 80

FileTools == {"Read", "Edit", "MultiEdit", "Create"}

\* A path of n characters; its i-th character is the last digit of i.
RECURSIVE PathOf(_)
PathOf(n) == IF n = 0 THEN "" ELSE PathOf(n - 1) \o ToString(n % 10)

PathRuns ==
    [lines : {<<ToolCall(tool, PathOf(n), Absent, Absent)>> :
                 tool \in FileTools, n \in 0..MaxPath},
     stderr : {""}, exits : {TRUE}]

\* json.loads (lines 2037, 1975, 1983): the parsed line, or JSONDecodeError.
JsonLoads(line) ==
    [JSONDecodeError |-> line.form \notin {"object", "value"}, data |-> line]

\* dict.get with a default.
Get(data, key, default) == IF data[key] = Absent THEN default ELSE data[key]

\* str.strip on the texts of this model.
Strip(text) ==
    CASE text = "B " -> "B"
      [] text = "E " -> "E"
      [] OTHER -> text

\* Python's truth value of a text or None.
Truthy(text) == text # None /\ text # ""

\* Lines 1971-1979. A value that is no object has no get; the bare except
\* takes that too.
extract_final_text(line) ==
    IF line.finalText = Absent THEN None
    ELSE LET r == JsonLoads(line)
         IN IF r.JSONDecodeError \/ r.data.form = "value" THEN None
            ELSE Get(r.data, "finalText", "")

\* Lines 1981-1987.
extract_session_id(line) ==
    LET r == JsonLoads(line)
    IN IF r.JSONDecodeError \/ r.data.form = "value" THEN None
       ELSE Get(r.data, "session_id", None)

\* A fold step that keeps the answer and the id it has.
KeepFirst(acc, data) ==
    IF Truthy(acc.final_response) THEN acc
    ELSE IF Get(data, "type", "") = "completion"
    THEN [acc EXCEPT !.final_response = Get(data, "finalText", ""),
                     !.new_session_id = Get(data, "session_id", None)]
    ELSE IF Get(data, "type", "") = "error"
    THEN [acc EXCEPT !.final_response = "Error: " \o Get(data, "message", "Unknown error")]
    ELSE acc

\* Lines 2052-2057: what an event object does to final_response and
\* new_session_id.
OnEvent(acc, data) ==
    IF Get(data, "type", "") = "completion"
    THEN [acc EXCEPT !.final_response = Get(data, "finalText", ""),
                     !.new_session_id = Get(data, "session_id", None)]
    ELSE IF Get(data, "type", "") = "error"
    THEN [acc EXCEPT !.final_response = "Error: " \o Get(data, "message", "Unknown error")]
    ELSE acc

\* Lines 2059-2064: what a line that json.loads rejected does to them.
OnDecodeError(acc, line) ==
    LET extracted == extract_final_text(line)
    IN [acc EXCEPT !.final_response = IF Truthy(extracted) THEN extracted
                                      ELSE acc.final_response,
                   !.new_session_id = IF acc.new_session_id = None
                                      THEN extract_session_id(line)
                                      ELSE acc.new_session_id]

\* A detail that keeps the last 50 characters of a long path.
LastFifty(file_path) ==
    IF Len(file_path) > 50
    THEN "..." \o SubSeq(file_path, Len(file_path) - 49, Len(file_path))
    ELSE file_path

\* Line 1959: "..." + file_path[-47:] for a path of more than 50 characters.
FileDetail(file_path) ==
    IF Len(file_path) > 50
    THEN "..." \o SubSeq(file_path, Len(file_path) - 46, Len(file_path))
    ELSE file_path

\* Lines 1946-1969 on the lines of this model.
format_tool_call(data) ==
    LET tool_name == IF Get(data, "toolName", "") # "" THEN data.toolName
                     ELSE "unknown"
        file_path == Get(data, "file_path", "")
        pattern == Get(data, "pattern", "")
        cmd == Get(data, "command", "")
        detail ==
            CASE tool_name \in {"Read", "Edit", "MultiEdit", "Create"} ->
                    FileDetail(file_path)
              [] tool_name = "Grep" ->
                    IF pattern = "" THEN ""
                    ELSE IF Len(pattern) > 20
                    THEN "'" \o SubSeq(pattern, 1, 20) \o "...'"
                    ELSE "'" \o pattern \o "'"
              [] tool_name = "Execute" ->
                    IF Len(cmd) > 40 THEN SubSeq(cmd, 1, 40) \o "..." ELSE cmd
              [] OTHER -> ""
    IN IF detail # "" THEN "-> " \o tool_name \o ": " \o detail
       ELSE "-> " \o tool_name

\* "\n".join of a list of texts.
RECURSIVE Join(_)
Join(texts) ==
    IF texts = <<>> THEN ""
    ELSE IF Len(texts) = 1 THEN texts[1]
    ELSE texts[1] \o "\n" \o Join(Tail(texts))

\* Lines 2043-2044: the window of the last five tool calls and its text.
DisplayTools(tool_updates) == LastN(tool_updates, 5)

\* A status text that takes every tool call of the run.
WholeStatus(tool_updates) == "Working...\n\n" \o Join(tool_updates)

NewStatus(tool_updates) == "Working...\n\n" \o Join(DisplayTools(tool_updates))

\* Lines 2025-2064: the read loop over the lines at hand, up to the status
\* push of a tool call ("push"), an exception that leaves the loop ("raise")
\* or the end of the lines ("eof"). A tool call whose status text is the one
\* pushed last does not suspend.
RECURSIVE ReadLoop(_, _)
ReadLoop(lines, acc) ==
    IF lines = <<>> THEN [end |-> "eof", acc |-> acc, rest |-> <<>>]
    ELSE LET line == Head(lines)
             r == JsonLoads(line)
         IN CASE line.form = "blank" -> ReadLoop(Tail(lines), acc)
              [] r.JSONDecodeError -> ReadLoop(Tail(lines), OnDecodeError(acc, line))
              [] r.data.form = "value" ->
                    [end |-> "raise", acc |-> acc, rest |-> Tail(lines)]
              [] Get(r.data, "type", "") = "tool_call" ->
                    LET tool_updates == Append(acc.tool_updates, format_tool_call(r.data))
                        new_status == NewStatus(tool_updates)
                        next == [acc EXCEPT !.tool_updates = tool_updates,
                                            !.new_status = new_status]
                    IN IF new_status # acc.last_update
                       THEN [end |-> "push", acc |-> next, rest |-> Tail(lines)]
                       ELSE ReadLoop(Tail(lines), next)
              [] OTHER -> ReadLoop(Tail(lines), OnEvent(acc, r.data))

\* Lines 2066-2075: the answer after the loop; None has no strip.
Finish(acc, stderr) ==
    LET final_response == IF stderr # "" /\ ~Truthy(acc.final_response)
                          THEN Strip(stderr) ELSE acc.final_response
    IN IF final_response = None
       THEN [end |-> "raise", response |-> None, new_session_id |-> None]
       ELSE [end |-> "return", response |-> Strip(final_response),
             new_session_id |-> acc.new_session_id]

\* readline (line 2026) does not suspend: while a unit waits in it, Python
\* runs nothing else.
LoopBlocked == \E c \in Cids : co[c].pc = "readline"

\* Lines 2183-2026 with streaming_mode set: the status message is posted, the
\* subprocess is started and registered, the unit waits for its first line.
BR_Start(c, inp) ==
    /\ ~LoopBlocked
    /\ co[c].kind = "msg" /\ co[c].pc = "status"
    /\ inp \in RunInputs \cup ToolRuns \cup PathRuns
    /\ FreePids # {}
    /\ LET p == FreePid
       IN /\ active_processes' = Put(active_processes, co[c].user, p)
          /\ alive' = alive \cup {p}
          /\ co' = [co EXCEPT ![c] =
                      [@ EXCEPT !.pc = "readline", !.proc = p, !.cmd_s = co[c].session_id,
                                !.cmd = StreamingCmd(UserMessage, co[c].session_id,
                                                     co[c].autonomy_level, co[c].model),
                                !.lines = inp.lines, !.exits = inp.exits,
                                !.stderr = inp.stderr, !.response = "",
                                !.new_sid = None, !.run = inp.lines,
                                !.tool_updates = <<>>, !.last_update = "",
                                !.new_status = "", !.edits = <<>>]]
    /\ UNCHANGED <<dirVars, queueVars, nextMsg, disk>>

\* Lines 2026-2075: the lines arrive (or, after a stop request, stdout is
\* closed) and the loop runs to its next status push, to an exception, or to
\* the exit of the subprocess and the return. Without a line and without an
\* exit the unit stays in readline. A unit resumed from a status push learns
\* whether the transport took the text (ok) or raised (lines 2046-2050);
\* edits is what the transport took, in order.
BR_Resume(c, ok) ==
    /\ co[c].kind = "msg"
    /\ co[c].pc = "readline" \/ (co[c].pc = "push" /\ ~LoopBlocked)
    /\ LET p == co[c].proc
           u == co[c].user
           killed == p \notin alive
           pushed == co[c].pc = "push" /\ ok
           edits == IF pushed THEN Append(co[c].edits, co[c].new_status)
                    ELSE co[c].edits
           r == ReadLoop(IF killed THEN <<>> ELSE co[c].lines,
                         [final_response |-> co[c].response,
                          new_session_id |-> co[c].new_sid,
                          tool_updates |-> co[c].tool_updates,
                          last_update |-> IF pushed THEN co[c].new_status
                                          ELSE co[c].last_update,
                          new_status |-> co[c].new_status])
           f == Finish(r.acc, co[c].stderr)
           resumed == [co[c] EXCEPT !.response = r.acc.final_response,
                                    !.new_sid = r.acc.new_session_id,
                                    !.tool_updates = r.acc.tool_updates,
                                    !.last_update = r.acc.last_update,
                                    !.new_status = r.acc.new_status,
                                    !.edits = edits]
       IN /\ r.end = "eof" => (killed \/ co[c].exits \/ co[c].lines # <<>>
                                \/ co[c].pc = "push")
          /\ CASE r.end = "push" ->
                    /\ co' = [co EXCEPT ![c] =
                                [resumed EXCEPT !.pc = "push", !.lines = r.rest]]
                    /\ UNCHANGED procVars
               [] r.end = "raise" ->
                    /\ co' = [co EXCEPT ![c] = IdleUnit]
                    /\ UNCHANGED procVars
               [] r.end = "eof" /\ ~(killed \/ co[c].exits) ->
                    /\ co' = [co EXCEPT ![c] =
                                [resumed EXCEPT !.pc = "readline", !.lines = <<>>]]
                    /\ UNCHANGED procVars
               [] OTHER ->
                    /\ active_processes' = Remove(active_processes, u)
                    /\ alive' = alive \ {p}
                    /\ co' = [co EXCEPT ![c] =
                                IF f.end = "raise" THEN IdleUnit
                                ELSE [resumed EXCEPT !.pc = "reply", !.lines = <<>>,
                                                     !.proc = 0, !.tool_updates = <<>>,
                                                     !.last_update = "",
                                                     !.new_status = "",
                                                     !.response = f.response,
                                                     !.new_sid = f.new_session_id]]
    /\ UNCHANGED <<dirVars, queueVars, nextMsg, disk>>

BR_Read(c) == \E ok \in BOOLEAN : BR_Resume(c, ok)

\* Lines 2077-2100 and 2183-2229 with streaming_mode unset: subprocess.run
\* waits for the exit for at most 300 seconds, without suspending. After the
\* ceiling it raises TimeoutExpired and handle_message posts the timeout
\* message.
BR_Simple(c, inp) ==
    /\ ~LoopBlocked
    /\ co[c].kind = "msg" /\ co[c].pc = "status"
    /\ inp \in RunInputs
    /\ co' = [co EXCEPT ![c] =
                IF inp.exits
                THEN [@ EXCEPT !.pc = "reply", !.cmd_s = co[c].session_id,
                               !.cmd = SimpleCmd(UserMessage, co[c].session_id,
                                                 co[c].autonomy_level, co[c].model),
                               !.new_sid = None,
                               !.response = IF inp.lines # <<>> THEN "stdout"
                                            ELSE Strip(inp.stderr)]
                ELSE IdleUnit]
    /\ UNCHANGED <<dirVars, queueVars, procVars, nextMsg, disk>>

\* A stop request, handled when Python is free to run its handler.
StopRequest(u) == ~LoopBlocked /\ StopCommand(u)

\* One exchange at a time in either mode, over every output of RunInputs,
\* with stop requests.
StreamNext ==
    \/ \E u \in Users : ~LoopBlocked /\ FreeUnits = Cids /\ HM_Receive(u, NoMsg)
    \/ \E c \in Cids, inp \in RunInputs : BR_Start(c, inp)
    \/ \E c \in Cids, inp \in RunInputs : BR_Simple(c, inp)
    \/ \E c \in Cids : BR_Read(c)
    \/ \E c \in Cids : ~LoopBlocked /\ HM_Commit(c)
    \/ \E u \in Users : StopRequest(u)

SpecStream == Init /\ [][StreamNext]_vars

\* The same with every unit that can take a step taking it.
SpecStreamLive == SpecStream /\ \A c \in Cids : WF_vars(BR_Read(c))

\* One exchange at a time in either mode, in the sessions that /proj opens
\* and outside them, with the level and the model set in between.
CmdNext ==
    \/ \E u \in Users, t \in ProjIds : FreeUnits = Cids /\ PJ_Start(u, "pa", t)
    \/ \E c \in Cids : PJ_Header(c)
    \/ \E u \in Users : AutoCommand(u, "off")
    \/ \E u \in Users : SetModelCallback(u, "t1", "sonnet")
    \/ \E u \in Users : FreeUnits = Cids /\ HM_Receive(u, NoMsg)
    \/ \E c \in Cids, n \in GenNames : HM_Named(c, n)
    \/ \E c \in Cids, sid \in {"t1", None} : HM_BridgeStart(c, "return", sid)
    \/ \E c \in Cids, inp \in {i \in RunInputs : i.lines = <<>> /\ i.exits} :
          BR_Simple(c, inp)
    \/ \E c \in Cids : HM_Commit(c)

SpecCmd == Init /\ [][CmdNext]_vars

\* One exchange at a time over the runs of tool calls.
StatusNext ==
    \/ \E u \in Users : ~LoopBlocked /\ FreeUnits = Cids /\ HM_Receive(u, NoMsg)
    \/ \E c \in Cids, inp \in ToolRuns : BR_Start(c, inp)
    \/ \E c \in Cids : BR_Read(c)
    \/ \E c \in Cids : ~LoopBlocked /\ HM_Commit(c)

SpecStatus == Init /\ [][StatusNext]_vars

\* One exchange at a time over the runs of one file tool call.
FormatNext ==
    \/ \E u \in Users : ~LoopBlocked /\ FreeUnits = Cids /\ HM_Receive(u, NoMsg)
    \/ \E c \in Cids, inp \in PathRuns : BR_Start(c, inp)
    \/ \E c \in Cids : BR_Read(c)
    \/ \E c \in Cids : ~LoopBlocked /\ HM_Commit(c)

SpecFormat == Init /\ [][FormatNext]_vars

\* ================================================================ properties
\* Steps of handle_message, told apart by the position of the unit.
Receives(c) == co[c].pc = "idle" /\ co'[c].kind = "msg"

Commits(c) == co[c].kind = "msg" /\ co[c].pc = "reply" /\ co'[c].pc = "idle"

\* C1: when a message replies to a message that has a session link, the
\* resolution of handle_message takes the session id and the working
\* directory (and the session_data) of that link and marks the message a
\* continuation, whatever the user's active session holds.
C1_ReplyResolvesToLink ==
    [][\A c \in Cids :
          (Receives(c) /\ co'[c].reply_to \in DOMAIN sessions)
          => LET link == sdata[sessions[co'[c].reply_to]]
             IN /\ co'[c].session_id = link.session_id
                /\ co'[c].cwd = OrDefault(link.cwd)
                /\ co'[c].sd = sessions[co'[c].reply_to]
                /\ co'[c].cont]_vars

\* A reply to a linked message was resolved to the link while the user's
\* active session names another session.
C1_Witness ==
    \E c \in Cids :
        /\ co[c].kind = "msg" /\ co[c].pc = "status" /\ ~co[c].first
        /\ co[c].reply_to \in DOMAIN sessions
        /\ co[c].session_id = sdata[sessions[co[c].reply_to]].session_id
        /\ co[c].session_id \in ToolIds
        /\ co[c].user \in DOMAIN active_session_per_user
        /\ active_session_per_user[co[c].user].session_id # co[c].session_id

\* A message that is no reply to a linked message, from a user without an
\* active session.
Fresh(c) == co[c].session_id = None /\ co[c].sd = NoMsg /\ ~co[c].cont

FreshReceive(c) ==
    /\ Receives(c)
    /\ co'[c].reply_to \notin DOMAIN sessions
    /\ co'[c].user \notin DOMAIN active_session_per_user

\* C2 as stated: a message that is no reply, from a user without an active
\* session, resolves to a null session id, and the successful exchange that
\* follows adds exactly one entry to the session history.
C2_FreshAddsExactlyOne ==
    [][\A c \in Cids :
          /\ FreshReceive(c) => co'[c].session_id = None
          /\ (Commits(c) /\ Fresh(c))
             => Len(session_history') = Len(session_history) + 1]_vars

\* C2: a message that is no reply, from a user without an active session,
\* resolves to a null session id and to no session_data, the tool is invoked
\* without a continuation id, and the successful exchange that follows adds
\* one entry to the session history when the tool returned a session id that
\* the history does not hold yet, and none otherwise.
C2_FreshAddsOneIfNewId ==
    [][\A c \in Cids :
          /\ FreshReceive(c)
             => co'[c].session_id = None /\ co'[c].sd = NoMsg /\ ~co'[c].cont
                /\ co'[c].pc = "status"
          /\ (co[c].kind = "msg" /\ co[c].pc = "status" /\ Fresh(c)
              /\ co'[c].pc = "reply")
             => co'[c].cmd_s = None
          /\ (Commits(c) /\ Fresh(c))
             => session_history' =
                   IF co[c].new_sid # None /\ ~InHistory(session_history, co[c].new_sid)
                   THEN Append(session_history,
                               [session_id |-> co[c].new_sid, cwd |-> co[c].cwd])
                   ELSE session_history]_vars

\* The only exchange so far was a fresh one and left one history entry.
C2_Witness ==
    /\ DOMAIN sessions = {1}
    /\ sdata[1].header_msg_id = NoMsg
    /\ sdata[1].session_id \in ToolIds
    /\ Len(session_history) = 1
    /\ session_history[1] = [session_id |-> sdata[1].session_id, cwd |-> DEFAULT_CWD]
    /\ \A c \in Cids : co[c].pc = "idle"

\* C3: the commit of a successful exchange of handle_message writes a link at
\* the reply message it just sent and overwrites the user's active session;
\* both carry the tool's id when it returned one, else the id the message
\* was resolved (or named) to, and the working directory of the exchange;
\* the active session's last message is that reply.
C3_CommitLinksReply ==
    [][\A c \in Cids :
          Commits(c)
          => LET m == nextMsg
                 id == IF co[c].new_sid # None THEN co[c].new_sid ELSE co[c].session_id
             IN /\ m \notin DOMAIN sessions
                /\ m \in DOMAIN sessions'
                /\ sdata'[sessions'[m]].session_id = id
                /\ sdata'[sessions'[m]].cwd = co[c].cwd
                /\ active_session_per_user'[co[c].user] =
                      [session_id |-> id, cwd |-> co[c].cwd, last_msg_id |-> m]]_vars

\* An exchange replaced an older active session: the active session points
\* at a reply that carries the tool's id, after a link with another id.
C3_Witness ==
    \E u \in Users, m \in DOMAIN sessions, k \in DOMAIN sessions :
        /\ k < m
        /\ u \in DOMAIN active_session_per_user
        /\ active_session_per_user[u].last_msg_id = m
        /\ active_session_per_user[u].session_id = sdata[sessions[m]].session_id
        /\ active_session_per_user[u].cwd = sdata[sessions[m]].cwd
        /\ sdata[sessions[m]].session_id \in ToolIds
        /\ sdata[sessions[k]].session_id # sdata[sessions[m]].session_id
        /\ ~sdata[sessions[m]].awaiting_first_message

InQueue(q, t) == \E i \in 1..Len(q) : q[i] = t

\* A bridge run of a runner that is suspended with its subprocess alive.
InFlight(c) == co[c].kind = "runner" /\ co[c].pc = "push" /\ co[c].proc \in alive

\* C5 as stated: a task that has reached completed or failed never changes
\* status again while it remains in the queue.
C5_TerminalStatusIsFinal ==
    [][\A t \in DOMAIN tasks :
          (InQueue(task_queue, t) /\ InQueue(task_queue', t)
           /\ Status(t) \in {"completed", "failed"})
          => tasks'[t].status = Status(t)]_vars

\* C6 as stated: a task that skip failed while its runner was still at it
\* stays failed: the runner does not record it as completed afterwards.
C6_SkippedStaysFailed ==
    [][\A c \in Cids :
          (co[c].kind = "runner" /\ co[c].pc \in {"push", "publish"}
           /\ Status(co[c].task) = "failed")
          => tasks'[co[c].task].status = "failed"]_vars

\* C7: enqueue appends a pending task at the tail of the list, and the tasks
\* leave the pending status in list order: no task of the list is pending
\* in front of one that a runner has already picked.
C7_StartedInEnqueueOrder ==
    [][/\ Len(task_queue') > Len(task_queue)
          => /\ Len(task_queue') = Len(task_queue) + 1
             /\ SubSeq(task_queue', 1, Len(task_queue)) = task_queue
             /\ tasks'[task_queue'[Len(task_queue')]].status = "pending"
             /\ ~InQueue(task_queue, task_queue'[Len(task_queue')])
       /\ \A i, j \in 1..Len(task_queue') :
             (i < j /\ tasks'[task_queue'[j]].status # "pending")
             => tasks'[task_queue'[i]].status # "pending"]_vars

\* The first task of the list is completed and the second one is running.
C7_Witness ==
    /\ Len(task_queue) = 2
    /\ Status(task_queue[1]) = "completed"
    /\ Status(task_queue[2]) = "running"
    /\ task_queue[1] < task_queue[2]

\* C8 as stated: at most one subprocess started by the queue is in flight.
C8_OneSubprocessInFlight ==
    Cardinality({c \in Cids : InFlight(c)}) <= 1

\* C9 as stated: a run request that finds the queue running, or no pending
\* task, starts no runner and no subprocess and leaves the task statuses and
\* both flags as they are.
C9_RunIsNoOp ==
    [][\A u \in Users :
          ((queue_running \/ ~HasPending) /\ (RunCommand(u) \/ VoiceRunQueue(u)))
          => UNCHANGED <<tasks, task_queue, queue_running, queue_paused, co,
                         active_processes, alive>>]_vars

\* C10: a step that empties a non-empty list (clear) leaves the queue stopped,
\* neither running nor paused, also while a task is in flight; and as long as
\* the list stays empty no step marks a task running, starts a runner or
\* sets the running flag: neither a run request nor the runner that was in
\* flight starts a task.
C10_ClearStopsQueue ==
    [][/\ (task_queue # <<>> /\ task_queue' = <<>>)
          => ~queue_running' /\ ~queue_paused'
       /\ (task_queue = <<>> /\ task_queue' = <<>>)
          => /\ \A t \in DOMAIN tasks :
                   tasks'[t].status = "running" => Status(t) = "running"
             /\ \A c \in Cids :
                   /\ co'[c].kind = "runner" => co[c].kind = "runner"
                   /\ co'[c].pc = "announce" => co[c].pc = "announce"
             /\ queue_running' => queue_running]_vars

\* The list was cleared while a task was in flight: the list is empty, the
\* queue is stopped and a runner's subprocess is still alive.
C10_Witness ==
    /\ task_queue = <<>>
    /\ ~queue_running /\ ~queue_paused
    /\ \E c \in Cids : InFlight(c) /\ Status(co[c].task) = "running"

AllSettled ==
    \A i \in 1..Len(task_queue) : Status(task_queue[i]) \notin {"pending", "running"}

\* C12 as stated: when every bridge run returns and nobody pauses or clears,
\* a running queue eventually is stopped with no task pending or running.
C12_RunReachesStopped ==
    queue_running ~> (~queue_running /\ AllSettled)

\* ----------------------------------------------------- registry properties
\* The registration of u names the subprocess of the bridge run in unit c.
Registered(c) ==
    /\ co[c].pc = "push"
    /\ co[c].user \in DOMAIN active_processes
    /\ active_processes[co[c].user] = co[c].proc

\* C13: a stop for a user without a registered process changes no state; a
\* stop for a user with a registered process removes the registration, and
\* the process it named is not alive afterwards, while every other process
\* is left as it was.
C13_StopTerminatesRegistered ==
    [][\A u \in Users :
          StopCommand(u)
          => IF u \notin DOMAIN active_processes
             THEN UNCHANGED vars
             ELSE /\ u \notin DOMAIN active_processes'
                  /\ active_processes[u] \notin alive'
                  /\ alive' \cup {active_processes[u]} = alive \cup {active_processes[u]}
                  /\ UNCHANGED <<dirVars, queueVars, co>>]_vars

\* A stop ended the live subprocess of a bridge run that is still suspended:
\* the run's subprocess is gone and so is the registration.
C13_Witness ==
    \E c \in Cids :
        /\ co[c].pc = "push"
        /\ co[c].proc \notin alive
        /\ co[c].user \notin DOMAIN active_processes
        /\ alive = {}

\* C14 as stated: while two bridge runs of one user overlap, the registration
\* names the run that started last until that run ends: the end of the older
\* run leaves the newer run's registration in place.
C14_LatestRunStaysRegistered ==
    [][\A c, d \in Cids :
          (/\ c # d
           /\ Registered(c)
           /\ co[d].pc = "push" /\ co[d].user = co[c].user
           /\ co'[c] = co[c]
           /\ co'[d].pc # "push")
          => /\ co[c].user \in DOMAIN active_processes'
             /\ active_processes'[co[c].user] = co[c].proc]_vars

\* ----------------------------------------------------- settings properties
\* The bridge run of the exchange in unit c fails.
Fails(c) ==
    co[c].kind = "msg" /\ co[c].pc \in {"status", "push"} /\ co'[c].pc = "idle"

\* The settings stored under old in f are stored under new in g, and old is
\* no key of g.
Moved(f, g, old, new) ==
    old \in DOMAIN f => (new \in DOMAIN g /\ g[new] = f[old] /\ old \notin DOMAIN g)

\* C15 as stated: when the tool returns a session id that differs from the
\* one the exchange was started with, the commit moves the autonomy, model
\* and git-sync settings of the old id to the new id and drops the old key.
C15_SettingsFollowToolId ==
    [][\A c \in Cids :
          (Commits(c) /\ co[c].cmd_s # None /\ co[c].new_sid # None
           /\ co[c].new_sid # co[c].cmd_s)
          => /\ Moved(session_autonomy, session_autonomy', co[c].cmd_s, co[c].new_sid)
             /\ Moved(session_models, session_models', co[c].cmd_s, co[c].new_sid)
             /\ Moved(session_git_sync, session_git_sync', co[c].cmd_s, co[c].new_sid)]_vars

\* C16 as stated: when the bridge run of an exchange fails, the directory is
\* as it was before the exchange began: the session_data that the exchange
\* found awaiting its first message still awaits it under the id it had.
C16_FailureLeavesNoWrite ==
    [][\A c \in Cids :
          (Fails(c) /\ co[c].first)
          => /\ sdata'[co[c].sd].session_id = co[c].old_session_id
             /\ sdata'[co[c].sd].awaiting_first_message]_vars

\* The snapshot of the directory after the step, with the given settings maps.
SnapshotWith(aut, sync, mods) ==
    Snapshot(sessions', sdata', active_session_per_user', session_history',
             aut, sync, mods)

\* C19: setting the autonomy level, the model or git-sync (on, off) of a
\* session to a value is idempotent: applied once more to the state it left,
\* the same setting with the same value gives the same maps and the same
\* snapshot. (/sync pull and /sync push flip a flag and set no value.)
C19_SettingIsIdempotent ==
    [][/\ \A u \in Users, l \in AUTONOMY_LEVELS :
             (AutoCommand(u, l) /\ ActiveId(u) # None)
             => LET again == SetAutonomy(session_autonomy', ActiveId(u), l)
                IN /\ again = session_autonomy'
                   /\ SnapshotWith(again, session_git_sync', session_models') = disk'
       /\ \A u \in Identities, sid \in ProjIds \cup ToolIds, l \in AUTONOMY_LEVELS :
             SetAutoCallback(u, sid, l)
             => LET again == SetAutonomy(session_autonomy', sid, l)
                IN /\ again = session_autonomy'
                   /\ SnapshotWith(again, session_git_sync', session_models') = disk'
       /\ \A u \in Identities, sid \in ProjIds \cup ToolIds, m \in SetModels :
             (SetModelCallback(u, sid, m) /\ resolve_model(m) # None)
             => LET again == SetModel(session_models', sid, m)
                IN /\ again = session_models'
                   /\ SnapshotWith(session_autonomy', session_git_sync', again) = disk'
       /\ \A u \in Users, a \in {"on", "off"} :
             (SyncCommand(u, a) /\ ActiveId(u) # None)
             => LET again == SetSync(session_git_sync', ActiveId(u), a)
                IN /\ again = session_git_sync'
                   /\ SnapshotWith(session_autonomy', again, session_models') = disk']_vars

\* Every kind of setting was applied to the session /proj opened, to a value
\* that differs from the one /proj stored.
C19_Witness ==
    \E sid \in ProjIds :
        /\ sid \in DOMAIN session_autonomy /\ session_autonomy[sid] = "unsafe"
        /\ sid \in DOMAIN session_models
        /\ session_models[sid] = MODEL_SHORTCUTS["sonnet"]
        /\ sid \in DOMAIN session_git_sync
        /\ session_git_sync[sid] = [pull |-> FALSE, push |-> FALSE]
        /\ disk.session_git_sync = session_git_sync
        /\ disk.session_autonomy = session_autonomy

\* C20 as stated: no event from an identity that is not on the allow-list
\* changes the directory, the queue or the registry, whatever the handler.
C20_UnauthorizedChangesNothing ==
    [][\A u \in Identities :
          (/\ ~is_authorized(u)
           /\ \/ Denied(u)
              \/ \E sid \in ProjIds \cup ToolIds, l \in AUTONOMY_LEVELS :
                    SetAutoCallback(u, sid, l)
              \/ \E sid \in ProjIds \cup ToolIds, m \in SetModels :
                    SetModelCallback(u, sid, m))
          => UNCHANGED <<dirVars, queueVars, procVars, disk>>]_vars

\* C17 as stated: the session history never holds two entries with the same
\* session id and never holds more than 100 entries.
C17_HistoryDedupedAndCapped ==
    /\ \A i, j \in 1..Len(session_history) :
          session_history[i].session_id = session_history[j].session_id => i = j
    /\ Len(session_history) <= HISTORY_CAP

\* C18 as stated: loading the snapshot of the directory gives the links, the
\* active sessions, the history and the settings maps that were in memory
\* when it was saved.
C18_SaveLoadRoundTrip ==
    LET d == Load(Snapshot(sessions, sdata, active_session_per_user, session_history,
                           session_autonomy, session_git_sync, session_models))
    IN /\ d.links = [m \in DOMAIN sessions |-> sdata[sessions[m]]]
       /\ d.active_session_per_user = active_session_per_user
       /\ d.session_history = session_history
       /\ d.session_autonomy = session_autonomy
       /\ d.session_git_sync = session_git_sync
       /\ d.session_models = session_models

\* The lines unit c has still to read hold no JSON null, and neither does
\* the answer it has so far.
NoNull(c) ==
    /\ co[c].response # None
    /\ \A i \in 1..Len(co[c].lines) : co[c].lines[i].finalText # None

\* A step in which the bridge run of unit c is left by an exception.
Raises(c) == BR_Read(c) /\ co'[c].pc = "idle"

\* C21 as stated: whatever lines the subprocess writes (event objects, JSON
\* that is no object, garbled text), no step of the read loop raises out of
\* the bridge run.
C21_NoLineRaises ==
    [][\A c \in Cids : NoNull(c) => ~Raises(c)]_vars

\* The last line unit c has still to read is one that json.loads rejects
\* and that holds a quoted finalText key with a value.
EndsGarbled(c) ==
    /\ co[c].lines # <<>>
    /\ LET last == co[c].lines[Len(co[c].lines)]
       IN last.form = "garbled" /\ last.finalText # Absent

\* C22 as stated: when the last line of a run fails strict parsing and holds a
\* quoted finalText key with a value, the run returns that value as its final
\* text, and a quoted session id on the line gives the run a new session id.
C22_ScanRecoversFinalText ==
    [][\A c \in Cids :
          (BR_Read(c) /\ EndsGarbled(c) /\ co'[c].pc = "reply") =>
              LET last == co[c].lines[Len(co[c].lines)]
              IN /\ co'[c].response = Strip(last.finalText)
                 /\ last.session_id # Absent => co'[c].new_sid # None]_vars

\* C23 as stated: a bridge run that waits for its subprocess does not wait
\* forever, whether or not the subprocess exits.
C23_BridgeWaitEnds ==
    \A c \in Cids : (co[c].pc = "readline") ~> (co[c].pc # "readline")

\* C24 as stated: while a unit waits for the output of its subprocess, a stop
\* request of its user can be handled.
C24_StopHandledWhileWaiting ==
    \A c \in Cids :
        (co[c].pc = "readline" /\ co[c].proc \in alive) =>
            ENABLED StopRequest(co[c].user)

\* No handler is between its first and its last step.
NoHandlerRunning == \A c \in Cids : co[c].pc = "idle"

\* C25 as stated: whenever no handler is mid-execution, the snapshot on disk
\* is the snapshot of the directory in memory.
C25_SnapshotFollowsMemory ==
    NoHandlerRunning =>
        disk = Snapshot(sessions, sdata, active_session_per_user, session_history,
                        session_autonomy, session_git_sync, session_models)

\* Another message of the user of unit c is being handled.
OtherInFlight(c) ==
    \E d \in Cids \ {c} : co[d].kind = "msg" /\ co[d].user = co'[c].user

\* C26: messages of one user are handled side by side. A message that is no
\* reply to a linked message, received while another message of the user is
\* in flight, resolves to the user's active session as it is then; every
\* commit adds the link of its own reply, keeps every link there was, and
\* makes the session it committed the user's active session, so that the
\* active session is the one of the exchange that committed last.
C26_ConcurrentLastWriterWins ==
    [][\A c \in Cids :
          /\ (Receives(c) /\ OtherInFlight(c)
              /\ co'[c].reply_to \notin DOMAIN sessions
              /\ co'[c].user \in DOMAIN active_session_per_user)
             => LET act == active_session_per_user[co'[c].user]
                IN co'[c].session_id = act.session_id /\ co'[c].cwd = OrDefault(act.cwd)
          /\ Commits(c)
             => LET m == nextMsg
                    u == co[c].user
                IN /\ m \in DOMAIN sessions' \ DOMAIN sessions
                   /\ \A k \in DOMAIN sessions :
                         /\ k \in DOMAIN sessions'
                         /\ sdata'[sessions'[k]] = sdata[sessions[k]]
                   /\ active_session_per_user'[u].last_msg_id = m
                   /\ active_session_per_user'[u].session_id =
                         IF co[c].new_sid # None THEN co[c].new_sid
                         ELSE co[c].session_id]_vars

\* Two messages of one user, neither a reply, resolved the same active
\* session and both ran the bridge to its return; both are about to commit.
C26_Witness ==
    \E c, d \in Cids :
        /\ c # d
        /\ co[c].kind = "msg" /\ co[c].pc = "reply" /\ co[c].reply_to = NoMsg
        /\ co[d].kind = "msg" /\ co[d].pc = "reply" /\ co[d].reply_to = NoMsg
        /\ co[c].user = co[d].user
        /\ co[c].user \in DOMAIN active_session_per_user
        /\ co[c].session_id = active_session_per_user[co[c].user].session_id
        /\ co[d].session_id = co[c].session_id
        /\ co[c].session_id # None
        /\ co[c].sd # NoMsg /\ co[d].sd = co[c].sd
        /\ nextMsg + 1 <= MaxMsg

\* C27 as stated: /new with a path, /proj and a voice project switch, given
\* a path that is no existing directory, write nothing to the session
\* directory and start no exchange.
C27_BadPathCreatesNoSession ==
    [][/\ \A u \in Users, arg \in PathArgs :
             (NewSession(u, arg) /\ arg # "" /\ resolve_cwd(arg) = None)
                => UNCHANGED <<dirVars, co>>
       /\ \A u \in Users, p \in DOMAIN PROJECT_SHORTCUTS :
             ~IsDir(PROJECT_SHORTCUTS[p]) =>
                /\ \A t \in ProjIds : PJ_Start(u, p, t) => UNCHANGED <<dirVars, co>>
                /\ VoiceSwitchProject(u, p, SwitchId(Len(session_history) + 1))
                      => UNCHANGED <<dirVars, co>>]_vars

\* C28 as stated: a restart that finds a damaged snapshot leaves the whole
\* directory empty: links, active sessions, history and settings maps.
C28_CorruptLoadsEmpty ==
    [][(Restart /\ disk.damage # "none") =>
          /\ sessions' = <<>>
          /\ active_session_per_user' = <<>>
          /\ session_history' = <<>>
          /\ session_autonomy' = <<>>
          /\ session_git_sync' = <<>>
          /\ session_models' = <<>>]_vars

\* C29 as stated: every autonomy level stored for a session is one of off,
\* low, medium, high, unsafe.
C29_StoredLevelsValid ==
    \A sid \in DOMAIN session_autonomy : session_autonomy[sid] \in AUTONOMY_LEVELS

\* The completion and error events among the lines, and what each gives as
\* the answer.
IsAnswer(line) == line.form = "object" /\ line.type \in {"completion", "error"}

AnswerOf(line) ==
    IF line.type = "completion" THEN Get(line, "finalText", "")
    ELSE "Error: " \o Get(line, "message", "Unknown error")

\* The answer of the last completion or error event of lines; before when
\* there is none.
LastAnswer(lines, before) ==
    LET idx == {i \in 1..Len(lines) : IsAnswer(lines[i])}
    IN IF idx = {} THEN before
       ELSE AnswerOf(lines[CHOOSE i \in idx : \A j \in idx : j <= i])

\* The session id of the last completion event of lines; before when there
\* is none.
LastCompletionId(lines, before) ==
    LET idx == {i \in 1..Len(lines) : IsAnswer(lines[i]) /\ lines[i].type = "completion"}
    IN IF idx = {} THEN before
       ELSE Get(lines[CHOOSE i \in idx : \A j \in idx : j <= i], "session_id", None)

\* The first line at which the read loop is left before stdout closes: a
\* tool call (status push) or JSON that is no object. Len + 1 without one.
FirstBreak(lines) ==
    LET idx == {i \in 1..Len(lines) :
                   \/ lines[i].form = "value"
                   \/ lines[i].form = "object" /\ lines[i].type = "tool_call"}
    IN IF idx = {} THEN Len(lines) + 1
       ELSE CHOOSE i \in idx : \A j \in idx : i <= j

\* C30: the final text of a bridge run is the answer of the last completion
\* or error event on stdout, whatever came before it: a completion gives its
\* finalText, an error event gives "Error: <message>", the loop reads on
\* after a completion (up to the next status push, and in the end up to the
\* close of stdout), an error event does not keep the run from returning, and
\* the stderr text is the answer exactly when stdout left no final text.
C30_LastEventIsAnswer ==
    [][\A c \in Cids :
          BR_Read(c) =>
             LET killed == co[c].proc \notin alive
                 ls == IF killed THEN <<>> ELSE co[c].lines
                 cut == FirstBreak(ls)
                 read == SubSeq(ls, 1, cut - 1)
                 ans == LastAnswer(read, co[c].response)
                 id == LastCompletionId(read, co[c].new_sid)
             IN /\ co'[c].pc = "push" =>
                      /\ cut <= Len(ls)
                      /\ co'[c].response = ans
                      /\ co'[c].new_sid = id
                      /\ co'[c].lines = SubSeq(ls, cut + 1, Len(ls))
                /\ co'[c].pc = "reply" =>
                      /\ cut = Len(ls) + 1
                      /\ co'[c].new_sid = id
                      /\ co'[c].response =
                            IF Truthy(ans) THEN Strip(ans)
                            ELSE IF co[c].stderr # "" THEN Strip(co[c].stderr)
                            ELSE ans
                /\ (/\ cut = Len(ls) + 1
                    /\ killed \/ co[c].exits
                    /\ ans # None \/ co[c].stderr # "")
                   => co'[c].pc = "reply"]_vars

\* A run returned the answer of an error event that came after a completion:
\* it holds the session id of the completion and the text of the error.
C30_Witness ==
    \E c \in Cids :
        /\ co[c].kind = "msg" /\ co[c].pc = "reply"
        /\ co[c].response = "Error: m"
        /\ co[c].new_sid = "t1"
        /\ co[c].stderr # ""

\* ------------------------------------------------ status display properties
\* The tool calls among the lines, as the display writes them.
RECURSIVE ToolsOf(_)
ToolsOf(lines) ==
    IF lines = <<>> THEN <<>>
    ELSE IF Head(lines).form = "object" /\ Head(lines).type = "tool_call"
    THEN <<format_tool_call(Head(lines))>> \o ToolsOf(Tail(lines))
    ELSE ToolsOf(Tail(lines))

\* The lines without the tool calls: a run that pushes no status at all.
RECURSIVE NoTools(_)
NoTools(lines) ==
    IF lines = <<>> THEN <<>>
    ELSE IF Head(lines).form = "object" /\ Head(lines).type = "tool_call"
    THEN NoTools(Tail(lines))
    ELSE <<Head(lines)>> \o NoTools(Tail(lines))

\* The status text after the first k lines of a run: the last five tool
\* calls of those lines, oldest first.
WindowText(run, k) ==
    LET calls == ToolsOf(SubSeq(run, 1, k))
        from == IF Len(calls) > 5 THEN Len(calls) - 4 ELSE 1
    IN "Working...\n\n" \o Join(SubSeq(calls, from, Len(calls)))

\* What the run returns when nothing is pushed.
UnpushedResult(run, stderr) ==
    Finish(ReadLoop(NoTools(run),
                    [final_response |-> "", new_session_id |-> None,
                     tool_updates |-> <<>>, last_update |-> "",
                     new_status |-> ""]).acc,
           stderr)

\* C31: during a bridge run every status text handed to the transport is the
\* text of the last five tool calls read so far, oldest first; no two status
\* texts the transport took one after the other are equal; and whichever
\* pushes failed, the run returns the final text and the session id it
\* returns when no status is pushed at all.
C31_StatusWindow ==
    \A c \in Cids :
        /\ co[c].pc = "push" =>
               co[c].new_status =
                   WindowText(co[c].run, Len(co[c].run) - Len(co[c].lines))
        /\ \A i \in 1..Len(co[c].edits) :
               \E k \in 1..Len(co[c].run) : co[c].edits[i] = WindowText(co[c].run, k)
        /\ \A i \in 1..(Len(co[c].edits) - 1) : co[c].edits[i] # co[c].edits[i + 1]
        /\ (co[c].kind = "msg" /\ co[c].pc = "reply") =>
               LET f == UnpushedResult(co[c].run, co[c].stderr)
               IN co[c].response = f.response /\ co[c].new_sid = f.new_session_id

\* A run of more than five tool calls has returned its answer; the transport
\* took some status texts and refused the last one.
C31_Witness ==
    \E c \in Cids :
        /\ co[c].kind = "msg" /\ co[c].pc = "reply"
        /\ Len(ToolsOf(co[c].run)) > 5
        /\ co[c].response = "A" /\ co[c].new_sid = "t1"
        /\ Len(co[c].edits) >= 2
        /\ co[c].edits[Len(co[c].edits)] # WindowText(co[c].run, Len(co[c].run))

\* ---------------------------------------------------- argument properties
\* The argument after the option flag, and whether the option is there; the
\* last argument is the text and no option.
HasOption(cmd, flag) == \E i \in 1..(Len(cmd) - 1) : cmd[i] = flag

OptionIs(cmd, flag, value) ==
    \E i \in 1..(Len(cmd) - 2) : cmd[i] = flag /\ cmd[i + 1] = value

HasPreamble(cmd) == cmd # <<>> /\ cmd[Len(cmd)] = BOT_CONTEXT \o UserMessage

\* The unit sends the first text of its session: a queued task, the first
\* message after /new or /proj, or a message that continues no session.
FirstOfSession(c) ==
    co[c].kind = "runner" \/ co[c].first \/ co[c].session_id = None

\* C32: the text handed to the tool starts with the preamble exactly when it
\* is the first text of a new session (the first message after /new or
\* /proj, a queued task, a message that continues nothing), and a
\* continuation never carries it.
C32_PreambleOnFirstOnly ==
    \A c \in Cids :
        co[c].cmd # <<>> => (HasPreamble(co[c].cmd) <=> FirstOfSession(c))

\* C33: in both modes the arguments hold --auto <level> exactly when the
\* level is not off, -m <model> exactly when a model is set, -s <id> exactly
\* when a session id is passed, and the text is the last argument.
C33_ArgumentGrammar ==
    \A c \in Cids :
        LET cmd == co[c].cmd
        IN cmd # <<>> =>
              /\ HasOption(cmd, "--auto") <=> co[c].autonomy_level # "off"
              /\ co[c].autonomy_level # "off" =>
                     OptionIs(cmd, "--auto", co[c].autonomy_level)
              /\ HasOption(cmd, "-m") <=> co[c].model # None
              /\ co[c].model # None => OptionIs(cmd, "-m", co[c].model)
              /\ HasOption(cmd, "-s") <=> co[c].session_id # None
              /\ co[c].session_id # None => OptionIs(cmd, "-s", co[c].session_id)
              /\ cmd[Len(cmd)] \in {UserMessage, BOT_CONTEXT \o UserMessage}

\* An exchange in simple mode and one in streaming mode, each with a level,
\* a model and a session id.
C33_Witness ==
    \E c \in Cids :
        /\ HasOption(co[c].cmd, "--auto") /\ HasOption(co[c].cmd, "-m")
        /\ HasOption(co[c].cmd, "-s")
        /\ ~HasOption(co[c].cmd, "--output-format")
        /\ session_history # <<>>

\* C39: an id passed with -s is one of the ids the tool returns; an id made
\* up by /proj, by the queue or by the name generator is never passed.
C39_OnlyToolIdsSent ==
    \A c \in Cids :
        \A i \in 1..(Len(co[c].cmd) - 2) :
            co[c].cmd[i] = "-s" => co[c].cmd[i + 1] \in ToolIds

\* ------------------------------------------------------ rendering properties
\* The detail in the rendered text of a call of the tool.
DetailIn(text, tool) ==
    LET head == "-> " \o tool \o ": "
    IN IF Len(text) <= Len(head) THEN ""
       ELSE SubSeq(text, Len(head) + 1, Len(text))

\* The first line of the run in unit c is a file tool call that has been
\* rendered.
FileCallRendered(c) ==
    /\ co[c].run # <<>> /\ co[c].tool_updates # <<>>
    /\ co[c].run[1].form = "object" /\ co[c].run[1].type = "tool_call"
    /\ co[c].run[1].toolName \in FileTools

\* C34: the detail rendered for a call of a file tool is the path when the
\* path has at most 50 characters; for a longer path it is "..." and then
\* the 47 characters the path ends with, 50 characters in all.
C34_FileDetailWidth ==
    \A c \in Cids :
        FileCallRendered(c) =>
            LET path == co[c].run[1].file_path
                detail == DetailIn(co[c].tool_updates[1], co[c].run[1].toolName)
            IN /\ Len(detail) <= 50
               /\ Len(path) <= 50 => detail = path
               /\ Len(path) > 50 =>
                     /\ Len(detail) = 50
                     /\ SubSeq(detail, 1, 3) = "..."
                     /\ path = SubSeq(path, 1, Len(path) - 47) \o SubSeq(detail, 4, 50)

\* A path of 80 characters has been rendered in 50.
C34_Witness ==
    \E c \in Cids :
        /\ FileCallRendered(c)
        /\ Len(co[c].run[1].file_path) = 80
        /\ Len(DetailIn(co[c].tool_updates[1], co[c].run[1].toolName)) = 50

\* ------------------------------------------------- runner properties
\* The runner in unit c holds a task it took from the list: it announces it,
\* runs it or publishes its result.
Holds(c) == co[c].kind = "runner" /\ co[c].pc \in {"announce", "push", "publish"}

\* The step in which the runner in unit c takes task t from the list.
Takes(c, t) == ~Holds(c) /\ Holds(c)' /\ co'[c].task = t

\* The step in which the runner in unit c hands its task to the bridge.
HandsOver(c) == co[c].kind = "runner" /\ co[c].pc = "announce" /\ co'[c].pc # "announce"

\* C35: a task is handed to the bridge at most once. A runner takes only a
\* pending task and marks it running in the same step, no step makes a task
\* pending again, no two runners hold the same task, and the runner that
\* handed its task over holds it no longer than to the end of that run.
C35_TaskStartedOnce ==
    [][/\ \A c \in Cids, t \in DOMAIN tasks :
              Takes(c, t) => Status(t) = "pending" /\ tasks'[t].status = "running"
       /\ \A t \in DOMAIN tasks :
              Status(t) # "pending" => tasks'[t].status # "pending"
       /\ \A c \in Cids, d \in Cids :
              (c # d /\ Holds(c) /\ Holds(d)) => co[c].task # co[d].task
       /\ \A c \in Cids :
              HandsOver(c) => (co'[c].task = co[c].task /\ co'[c].pc # "announce")
       /\ \A c \in Cids :
              (Holds(c) /\ co[c].pc # "announce" /\ Holds(c)') =>
                  (co'[c].task = co[c].task /\ co'[c].pc # "announce")]_vars

\* Two runners at work at the same time, each on a task of its own.
C35_Witness ==
    \E c \in Cids, d \in Cids :
        /\ c # d
        /\ co[c].kind = "runner" /\ co[c].pc = "push"
        /\ co[d].kind = "runner" /\ co[d].pc \in {"push", "publish"}
        /\ co[c].task # co[d].task

\* ------------------------------------------------- registry after a run
\* The bridge run in unit c has neither returned nor failed.
RunInFlight(c) == co[c].pc \in {"push", "readline"} /\ co[c].proc # 0

\* C38: every entry of the registry names the subprocess of a bridge run of
\* that user that has neither returned nor failed; when a run has ended,
\* by its return or by an exception in the read loop, no entry names its
\* subprocess.
C38_RegistryOnlyWhileRunning ==
    \A u \in DOMAIN active_processes :
        \E c \in Cids :
            /\ RunInFlight(c)
            /\ co[c].user = u
            /\ co[c].proc = active_processes[u]

\* ------------------------------------------------- /new and its two messages
\* Message h is the header of a /new and message m the instruction posted
\* right after it (lines 1681-1701).
HeaderAndInstruction(h, m) ==
    /\ h \in DOMAIN sessions /\ m \in DOMAIN sessions
    /\ m = h + 1
    /\ sdata[sessions[h]].header_msg_id = h
    /\ sdata[sessions[m]].header_msg_id = h

\* The first task of the session behind message r has been sent.
FirstTaskSent(r) == ~sdata[sessions[r]].awaiting_first_message

\* C40: once the first task of a session opened by /new has been sent, a
\* reply to the header and a reply to the instruction resolve to the same
\* session id, also when the bot was restarted from its snapshot between
\* the /new and the first task.
C40_HeaderAndInstructionAgree ==
    \A u \in Users, h \in DOMAIN sessions, m \in DOMAIN sessions :
        (HeaderAndInstruction(h, m) /\ (FirstTaskSent(h) \/ FirstTaskSent(m))) =>
            Resolve(u, h).session_id = Resolve(u, m).session_id

\* ------------------------------------------------- the running flag
\* A runner loop is active in unit c.
RunnerActive(c) == co[c].kind = "runner"

\* C36: the running flag is set only while a runner loop is active, and a
\* task of the list has status running only while a runner holds it: when
\* the runner has ended, for whatever reason, the queue is stopped and no
\* task is left running, so that /run starts a runner again.
C36_RunningOnlyWithRunner ==
    /\ queue_running => \E c \in Cids : RunnerActive(c)
    /\ \A i \in 1..Len(task_queue) :
          Status(task_queue[i]) = "running" =>
              \E c \in Cids : Holds(c) /\ co[c].task = task_queue[i]

\* C37: when /run has been issued while the queue was paused and was
\* answered with "already running", and nobody pauses or clears afterwards,
\* every pending task of the list is eventually started.
C37_RunAfterPauseResumes ==
    (Refused /\ queue_paused) ~>
        (\A i \in 1..Len(task_queue) : Status(task_queue[i]) # "pending")
====
